---- MODULE Spec2Model ----
(***************************************************************************)
(* Model of the distributed elevator controller: the per-cabin FSM         *)
(* (src/src/elevator/fsm.rs), the Coordinator                              *)
(* (src/src/coordinator/coordinator.rs), the data-tx/data-rx threads of    *)
(* the network layer (src/src/network/network.rs) and the parts of the     *)
(* hardware driver the FSM and the Coordinator talk to                     *)
(* (src/src/elevator/hardware.rs).                                         *)
(*                                                                         *)
(* Every channel of main.rs is a FIFO sequence.  Every handler of a        *)
(* select! loop is one action that pops its channel and performs the whole *)
(* handler.  Timers (Instant deadlines) are abstracted to running/expired. *)
(***************************************************************************)
EXTENDS Integers, Sequences, FiniteSets, TLC

(***************************************************************************)
(* Program constants                                                       *)
(***************************************************************************)
HALL_UP == 0
HALL_DOWN == 1
CAB == 2
\* driver_rust::elevio::elev: the motor commands
DIRN_UP == 1
DIRN_DOWN == 255
DIRN_STOP == 0
\* u8::MAX, the floor of a driver that has not read one yet
U8_MAX == 255

(***************************************************************************)
(* Bounds of the model                                                     *)
(***************************************************************************)
\* number of floors (elevator.n_floors of the configuration)
NFloors == 3
\* largest version drawn for the inputs of check_merge_type
MaxVersion == 3
\* no channel holds more than this many messages
MaxQueue == 1
\* what the environment of SpecFsm and SpecFault may do
MaxHallMsgs == 2
MaxCabMsgs == 1
\* calls in one assignment sent by the environment of SpecFsm
MaxAssigned == 1
\* calls in the saved cab file at start
MaxSaved == 1
\* what the environment of SpecCluster may do
MaxPresses == 1
MaxPeerUpdates == 2
MaxDrops == 0
MaxKills == 1
MaxCabPresses == 2
MaxPanelPresses == 2
MaxOfflinePresses == 2
MaxOrders == 4
MaxDriverPresses == 3
MaxLampMsgs == 2
MaxSnapshots == 2
MaxTerminations == 2
MaxServiceVersion == 12
MaxServiceQueue == 2
MaxStopPresses == 1
MaxSocket == 1
MaxNetDrops == 1
MaxGarbage == 1
MaxForeign == 1
\* network.max_retries of config.toml
max_retries == 2
MaxObstructions == 2
MaxMotorTimeouts == 1

Floors == 0..(NFloors - 1)
HallKinds == {HALL_UP, HALL_DOWN}
Nodes == {"E1", "E2"}
\* ids that occur as keys of a states map in the inputs of check_merge_type
Ids == {"E1", "E2", "E3"}

Behaviours == {"Idle", "Moving", "DoorOpen", "Error"}
Directions == {"Up", "Down", "Stop"}

(***************************************************************************)
(* shared/structs.rs                                                       *)
(***************************************************************************)
NoCab == [f \in Floors |-> FALSE]
NoHall == [f \in Floors |-> [k \in HallKinds |-> FALSE]]
CabVectors == [Floors -> BOOLEAN]
HallMatrices == [Floors -> [HallKinds -> BOOLEAN]]

\* ElevatorState::new
NewElevatorState ==
    [behaviour |-> "Idle", floor |-> 0, direction |-> "Stop", cab_requests |-> NoCab]

\* ElevatorData::new followed by the insertion of the local entry (main.rs)
NewElevatorData(id) ==
    [version |-> 0, hall_requests |-> NoHall, states |-> (id :> NewElevatorState)]

(***************************************************************************)
(* State                                                                   *)
(***************************************************************************)
VARIABLES
    \* --- Coordinator (per node)
    elevator_data,          \* Coordinator.elevator_data
    coord_status,           \* "running" | "panicked" | "terminated" | "off"
    net_data_recv,          \* channel network -> coordinator
    net_peer_update,        \* channel peer-rx -> coordinator
    hw_request,             \* channel driver -> coordinator (button edges)
    fsm_state,              \* channel fsm -> coordinator
    fsm_order_complete,     \* channel fsm -> coordinator
    hw_button_light,        \* channel coordinator -> driver (lamp commands)
    fsm_hall_requests,      \* channel coordinator -> fsm
    fsm_cab_request,        \* channel coordinator -> fsm
    net_data_send,          \* channel coordinator -> data-tx
    \* --- FSM (per node)
    fsm,                    \* the private fields of ElevatorFSM
    fsm_status,             \* "init" | "running" | "terminated" | "panicked" | "off"
    hw_floor_sensor,        \* channel driver -> fsm
    hw_obstruction,         \* channel driver -> fsm
    hw_stop_button,         \* channel driver -> fsm
    fsm_terminate,          \* channel -> fsm
    hw_motor_direction,     \* channel fsm -> driver
    hw_door_light,          \* channel fsm -> driver
    hw_floor_indicator,     \* the last floor sent on hw_floor_indicator_tx (-1: none)
    peer_tx_enabled,        \* the last value sent on net_peer_tx_enable_tx (initially TRUE)
    cab_orders_file,        \* src/elevator/cab_orders.toml
    \* --- the elevator (hardware behind the driver) and the environment
    hw,                     \* position, motor, door lamp, obstruction switch
    driver,                 \* the private fields of ElevatorDriver
    env,                    \* what the environment may still do
    \* --- harness of the pure functions
    call

coordVars == <<elevator_data, coord_status, net_data_recv, net_peer_update, hw_request,
               hw_button_light, net_data_send>>

\* the channels between the Coordinator and the FSM
linkVars == <<fsm_state, fsm_order_complete, fsm_hall_requests, fsm_cab_request>>

fsmVars == <<fsm, fsm_status, hw_floor_sensor, hw_obstruction, hw_stop_button, fsm_terminate,
             hw_motor_direction, hw_door_light, hw_floor_indicator, peer_tx_enabled,
             cab_orders_file>>

hwVars == <<hw, driver>>

vars == <<coordVars, linkVars, fsmVars, hwVars, env, call>>

(***************************************************************************)
(* Coordinator::check_merge_type.  The loop over                           *)
(* self.elevator_data.states.keys() overwrites new_elevators on every      *)
(* iteration, so its final value is the one computed for the key iterated  *)
(* last; the iteration order of a HashMap is unspecified, so last_key is   *)
(* any key of the local map.                                               *)
(***************************************************************************)
LastKeys(local) == IF DOMAIN local.states = {} THEN {"none"} ELSE DOMAIN local.states

check_merge_type(local, incoming, last_key) ==
    LET new_elevators ==
            IF DOMAIN local.states = {} THEN FALSE
            ELSE last_key \notin DOMAIN incoming.states
    IN  IF new_elevators THEN "Merge"
        ELSE IF incoming.version > local.version THEN "Accept"
        ELSE "Reject"

(***************************************************************************)
(* Channels                                                                *)
(***************************************************************************)
Push(ch, n, msgs) == [ch EXCEPT ![n] = @ \o msgs]
Pop(ch, n) == [ch EXCEPT ![n] = Tail(@)]
Room(ch, n) == Len(ch[n]) < env.max_queue

\* Direction::to_u8
to_u8(direction) ==
    CASE direction = "Up" -> DIRN_UP
      [] direction = "Down" -> DIRN_DOWN
      [] direction = "Stop" -> DIRN_STOP

(***************************************************************************)
(* ElevatorFSM: the pure parts                                             *)
(***************************************************************************)
OrdersAt(st, hall, f) ==
    st.cab_requests[f] \/ hall[f][HALL_UP] \/ hall[f][HALL_DOWN]

\* has_orders_in_direction with the Up scan starting at the current floor
has_orders_in_direction_mut(st, hall, direction) ==
    CASE direction = "Up" -> \E f \in Floors : f >= st.floor /\ OrdersAt(st, hall, f)
      [] direction = "Down" -> \E f \in Floors : f < st.floor /\ OrdersAt(st, hall, f)
      [] OTHER -> FALSE

has_orders_in_direction(st, hall, direction) ==
    CASE direction = "Up" -> \E f \in Floors : f >= st.floor + 1 /\ OrdersAt(st, hall, f)
      [] direction = "Down" -> \E f \in Floors : f < st.floor /\ OrdersAt(st, hall, f)
      [] OTHER -> FALSE

\* choose_direction that does not turn round when it was going Down
choose_direction_mut(st, hall) ==
    LET current_direction == st.direction
    IN  IF has_orders_in_direction(st, hall, current_direction) THEN current_direction
        ELSE IF current_direction = "Up" /\ has_orders_in_direction(st, hall, "Down") THEN "Down"
        ELSE IF current_direction = "Stop" /\ has_orders_in_direction(st, hall, "Up") THEN "Up"
        ELSE IF current_direction = "Stop" /\ has_orders_in_direction(st, hall, "Down") THEN "Down"
        ELSE "Stop"

choose_direction(st, hall) ==
    LET current_direction == st.direction
    IN  IF has_orders_in_direction(st, hall, current_direction) THEN current_direction
        ELSE IF current_direction = "Up" /\ has_orders_in_direction(st, hall, "Down") THEN "Down"
        ELSE IF current_direction = "Down" /\ has_orders_in_direction(st, hall, "Up") THEN "Up"
        ELSE IF current_direction = "Stop" /\ has_orders_in_direction(st, hall, "Up") THEN "Up"
        ELSE IF current_direction = "Stop" /\ has_orders_in_direction(st, hall, "Down") THEN "Down"
        ELSE "Stop"

\* complete_orders without the bottom-floor and top-floor tests
complete_orders_mut(st, hall) ==
    LET current_floor == st.floor
        cab == st.cab_requests[current_floor]
        up == hall[current_floor][HALL_UP]
              /\ (st.direction = "Up" \/ st.behaviour = "Idle")
        down == hall[current_floor][HALL_DOWN]
                /\ (st.direction = "Down" \/ st.behaviour = "Idle")
    IN  [state |-> [st EXCEPT !.cab_requests[current_floor] = IF cab THEN FALSE ELSE @],
         hall_requests |-> [hall EXCEPT ![current_floor][HALL_UP] = IF up THEN FALSE ELSE @,
                                        ![current_floor][HALL_DOWN] = IF down THEN FALSE ELSE @],
         sent |-> (IF cab THEN << <<current_floor, CAB>> >> ELSE <<>>)
                  \o (IF up THEN << <<current_floor, HALL_UP>> >> ELSE <<>>)
                  \o (IF down THEN << <<current_floor, HALL_DOWN>> >> ELSE <<>>),
         saved |-> cab,
         orders_completed |-> cab \/ up \/ down]

\* complete_orders: the state and the assignment after it, the completion events it
\* sends (in order), whether it saves the cab vector, and its return value
complete_orders(st, hall) ==
    LET current_floor == st.floor
        is_top_floor == current_floor = NFloors - 1
        is_bottom_floor == current_floor = 0
        cab == st.cab_requests[current_floor]
        up == hall[current_floor][HALL_UP]
              /\ (st.direction = "Up" \/ is_bottom_floor \/ st.behaviour = "Idle")
        down == hall[current_floor][HALL_DOWN]
                /\ (st.direction = "Down" \/ is_top_floor \/ st.behaviour = "Idle")
    IN  [state |-> [st EXCEPT !.cab_requests[current_floor] = IF cab THEN FALSE ELSE @],
         hall_requests |-> [hall EXCEPT ![current_floor][HALL_UP] = IF up THEN FALSE ELSE @,
                                        ![current_floor][HALL_DOWN] = IF down THEN FALSE ELSE @],
         sent |-> (IF cab THEN << <<current_floor, CAB>> >> ELSE <<>>)
                  \o (IF up THEN << <<current_floor, HALL_UP>> >> ELSE <<>>)
                  \o (IF down THEN << <<current_floor, HALL_DOWN>> >> ELSE <<>>),
         saved |-> cab,
         orders_completed |-> cab \/ up \/ down]

(***************************************************************************)
(* ElevatorFSM: the thread                                                 *)
(***************************************************************************)
\* ElevatorFSM::new
NewFsm ==
    [state |-> NewElevatorState, hall_requests |-> NoHall, obstruction |-> FALSE,
     peer_enable |-> TRUE, door_timer |-> "expired", motor_timer |-> "expired"]

\* the Coordinator has dropped its receivers: a send to it fails
CoordGone(n) == coord_status[n] \in {"panicked", "terminated"}

\* no Coordinator thread exists: the environment holds the receivers and takes every
\* message as it is sent; the channel then shows what the last step of the FSM sent
NoCoord(n) == coord_status[n] = "off"

\* fsm_state_tx.send / fsm_order_complete_tx.send
SendToCoord(ch, n, msgs) ==
    IF CoordGone(n) THEN ch
    ELSE IF NoCoord(n) THEN [ch EXCEPT ![n] = msgs]
    ELSE Push(ch, n, msgs)

\* room in every channel the FSM sends on
FsmRoom(n) ==
    /\ NoCoord(n) \/ (Room(fsm_state, n) /\ Room(fsm_order_complete, n))
    /\ Room(hw_motor_direction, n) /\ Room(hw_door_light, n)

\* the default branch of select! runs when no channel is ready
FsmIdleChannels(n) ==
    /\ hw_floor_sensor[n] = <<>> /\ fsm_hall_requests[n] = <<>> /\ fsm_cab_request[n] = <<>>
    /\ hw_stop_button[n] = <<>> /\ hw_obstruction[n] = <<>> /\ fsm_terminate[n] = <<>>

\* What one handler of the FSM does, given as the record out:
\*   f: the private fields after it, motor/door/states/orders: what it sends,
\*   file: the cab vector it saves, indicator/peer: the values it sends there.
FsmApply(n, out) ==
    LET \* fsm_order_complete_tx.send(..).unwrap() in complete_orders panics
        panic == out.orders # <<>> /\ CoordGone(n)
    IN  /\ hw_floor_indicator' = [hw_floor_indicator EXCEPT ![n] = out.indicator]
        /\ peer_tx_enabled' = [peer_tx_enabled EXCEPT ![n] = out.peer]
        \* close_door precedes complete_orders, open_door follows it
        /\ hw_door_light' = IF panic /\ out.door # <<FALSE>> THEN hw_door_light
                            ELSE Push(hw_door_light, n, out.door)
        /\ IF panic
           THEN /\ fsm_status' = [fsm_status EXCEPT ![n] = "panicked"]
                /\ UNCHANGED <<fsm, fsm_state, fsm_order_complete, cab_orders_file,
                               hw_motor_direction>>
           ELSE /\ fsm' = [fsm EXCEPT ![n] = out.f]
                /\ hw_motor_direction' = Push(hw_motor_direction, n, out.motor)
                /\ fsm_order_complete' = SendToCoord(fsm_order_complete, n, out.orders)
                /\ fsm_state' = SendToCoord(fsm_state, n, out.states)
                /\ cab_orders_file' = [cab_orders_file EXCEPT ![n] = out.file]
                /\ UNCHANGED fsm_status

\* a handler that sends nothing and leaves the private fields as they are
FsmQuiet(n) ==
    [f |-> fsm[n], motor |-> <<>>, door |-> <<>>, states |-> <<>>, orders |-> <<>>,
     file |-> cab_orders_file[n], indicator |-> hw_floor_indicator[n],
     peer |-> peer_tx_enabled[n]]

\* run(): the start-up command and load_saved_cab_calls
FsmStart(n) ==
    /\ fsm_status[n] = "init"
    /\ FsmRoom(n)
    /\ LET st == [fsm[n].state EXCEPT !.cab_requests = cab_orders_file[n]]
       IN  /\ fsm' = [fsm EXCEPT ![n].state = st]
           /\ hw_motor_direction' = Push(hw_motor_direction, n, <<to_u8("Down")>>)
           /\ fsm_state' = SendToCoord(fsm_state, n, <<st>>)
    /\ fsm_order_complete' = SendToCoord(fsm_order_complete, n, <<>>)
    /\ fsm_status' = [fsm_status EXCEPT ![n] = "running"]
    /\ UNCHANGED <<hw_floor_sensor, hw_obstruction, hw_stop_button, fsm_terminate,
                   hw_door_light, hw_floor_indicator, peer_tx_enabled, cab_orders_file,
                   fsm_hall_requests, fsm_cab_request>>
    /\ UNCHANGED <<coordVars, hwVars, env, call>>

\* handle_floor_hit that sends no motor Stop when it has completed an order
handle_floor_hit_mut(n, floor) ==
    LET F == fsm[n]
        restored == F.state.behaviour = "Moving" /\ ~F.peer_enable
        st0 == [F.state EXCEPT !.floor = floor]
        co == complete_orders(st0, F.hall_requests)
        opened == [co.state EXCEPT !.behaviour = "DoorOpen"]
        dir == choose_direction(co.state, co.hall_requests)
        moved == [co.state EXCEPT !.direction = dir,
                                  !.behaviour = IF dir = "Stop" THEN "Idle" ELSE "Moving"]
        st == IF co.orders_completed THEN opened ELSE moved
    IN  [f |-> [F EXCEPT !.state = st,
                         !.hall_requests = co.hall_requests,
                         !.peer_enable = IF restored THEN TRUE ELSE @,
                         !.door_timer = IF co.orders_completed THEN "running" ELSE @,
                         !.motor_timer = IF ~co.orders_completed /\ dir # "Stop"
                                         THEN "running" ELSE @],
         motor |-> IF co.orders_completed THEN <<>> ELSE <<to_u8(dir)>>,
         door |-> IF co.orders_completed THEN <<TRUE>> ELSE <<>>,
         states |-> IF co.orders_completed THEN <<opened, opened>> ELSE <<moved>>,
         orders |-> co.sent,
         file |-> IF co.saved THEN co.state.cab_requests ELSE cab_orders_file[n],
         indicator |-> floor,
         peer |-> IF restored THEN TRUE ELSE peer_tx_enabled[n]]

\* handle_floor_hit
handle_floor_hit(n, floor) ==
    LET F == fsm[n]
        restored == F.state.behaviour = "Moving" /\ ~F.peer_enable
        st0 == [F.state EXCEPT !.floor = floor]
        co == complete_orders(st0, F.hall_requests)
        opened == [co.state EXCEPT !.behaviour = "DoorOpen"]
        dir == choose_direction(co.state, co.hall_requests)
        moved == [co.state EXCEPT !.direction = dir,
                                  !.behaviour = IF dir = "Stop" THEN "Idle" ELSE "Moving"]
        st == IF co.orders_completed THEN opened ELSE moved
    IN  [f |-> [F EXCEPT !.state = st,
                         !.hall_requests = co.hall_requests,
                         !.peer_enable = IF restored THEN TRUE ELSE @,
                         !.door_timer = IF co.orders_completed THEN "running" ELSE @,
                         !.motor_timer = IF ~co.orders_completed /\ dir # "Stop"
                                         THEN "running" ELSE @],
         motor |-> IF co.orders_completed THEN <<to_u8("Stop")>> ELSE <<to_u8(dir)>>,
         door |-> IF co.orders_completed THEN <<TRUE>> ELSE <<>>,
         states |-> IF co.orders_completed THEN <<opened, opened>> ELSE <<moved>>,
         orders |-> co.sent,
         file |-> IF co.saved THEN co.state.cab_requests ELSE cab_orders_file[n],
         indicator |-> floor,
         peer |-> IF restored THEN TRUE ELSE peer_tx_enabled[n]]

FsmFloorSensor(n) ==
    /\ fsm_status[n] = "running"
    /\ hw_floor_sensor[n] # <<>>
    /\ FsmRoom(n)
    /\ hw_floor_sensor' = Pop(hw_floor_sensor, n)
    /\ FsmApply(n, handle_floor_hit(n, Head(hw_floor_sensor[n])))
    /\ UNCHANGED <<hw_obstruction, hw_stop_button, fsm_terminate, fsm_hall_requests,
                   fsm_cab_request>>
    /\ UNCHANGED <<coordVars, hwVars, env, call>>

\* recv(fsm_hall_requests_rx): the assignment is replaced wholesale
FsmHallRequests(n) ==
    /\ fsm_status[n] = "running"
    /\ fsm_hall_requests[n] # <<>>
    /\ fsm' = [fsm EXCEPT ![n].hall_requests = Head(fsm_hall_requests[n])]
    /\ fsm_hall_requests' = Pop(fsm_hall_requests, n)
    /\ fsm_state' = SendToCoord(fsm_state, n, <<>>)
    /\ fsm_order_complete' = SendToCoord(fsm_order_complete, n, <<>>)
    /\ UNCHANGED <<fsm_status, hw_floor_sensor, hw_obstruction, hw_stop_button, fsm_terminate,
                   hw_motor_direction, hw_door_light, hw_floor_indicator, peer_tx_enabled,
                   cab_orders_file, fsm_cab_request>>
    /\ UNCHANGED <<coordVars, hwVars, env, call>>

\* recv(fsm_cab_request_rx)
FsmCabRequest(n) ==
    /\ fsm_status[n] = "running"
    /\ fsm_cab_request[n] # <<>>
    /\ FsmRoom(n)
    /\ LET st == [fsm[n].state EXCEPT !.cab_requests[Head(fsm_cab_request[n])] = TRUE]
       IN  /\ fsm' = [fsm EXCEPT ![n].state = st]
           /\ cab_orders_file' = [cab_orders_file EXCEPT ![n] = st.cab_requests]
           /\ fsm_state' = SendToCoord(fsm_state, n, <<st>>)
    /\ fsm_order_complete' = SendToCoord(fsm_order_complete, n, <<>>)
    /\ fsm_cab_request' = Pop(fsm_cab_request, n)
    /\ UNCHANGED <<fsm_status, hw_floor_sensor, hw_obstruction, hw_stop_button, fsm_terminate,
                   hw_motor_direction, hw_door_light, hw_floor_indicator, peer_tx_enabled,
                   fsm_hall_requests>>
    /\ UNCHANGED <<coordVars, hwVars, env, call>>

\* recv(hw_stop_button_rx): both values are ignored
FsmStopButton(n) ==
    /\ fsm_status[n] = "running"
    /\ hw_stop_button[n] # <<>>
    /\ hw_stop_button' = Pop(hw_stop_button, n)
    /\ fsm_state' = SendToCoord(fsm_state, n, <<>>)
    /\ fsm_order_complete' = SendToCoord(fsm_order_complete, n, <<>>)
    /\ UNCHANGED <<fsm, fsm_status, hw_floor_sensor, hw_obstruction, fsm_terminate,
                   hw_motor_direction, hw_door_light, hw_floor_indicator, peer_tx_enabled,
                   cab_orders_file, fsm_hall_requests, fsm_cab_request>>
    /\ UNCHANGED <<coordVars, hwVars, env, call>>

\* recv(hw_obstruction_rx)
FsmObstruction(n) ==
    /\ fsm_status[n] = "running"
    /\ hw_obstruction[n] # <<>>
    /\ fsm' = [fsm EXCEPT ![n].obstruction = Head(hw_obstruction[n])]
    /\ hw_obstruction' = Pop(hw_obstruction, n)
    /\ fsm_state' = SendToCoord(fsm_state, n, <<>>)
    /\ fsm_order_complete' = SendToCoord(fsm_order_complete, n, <<>>)
    /\ UNCHANGED <<fsm_status, hw_floor_sensor, hw_stop_button, fsm_terminate,
                   hw_motor_direction, hw_door_light, hw_floor_indicator, peer_tx_enabled,
                   cab_orders_file, fsm_hall_requests, fsm_cab_request>>
    /\ UNCHANGED <<coordVars, hwVars, env, call>>

\* FsmTerminate that takes the message and stays in the loop
FsmTerminate_mut(n) ==
    /\ fsm_status[n] = "running"
    /\ fsm_terminate[n] # <<>>
    /\ fsm_terminate' = Pop(fsm_terminate, n)
    /\ UNCHANGED fsm_status
    /\ fsm_state' = SendToCoord(fsm_state, n, <<>>)
    /\ fsm_order_complete' = SendToCoord(fsm_order_complete, n, <<>>)
    /\ UNCHANGED <<fsm, hw_floor_sensor, hw_obstruction, hw_stop_button,
                   hw_motor_direction, hw_door_light, hw_floor_indicator, peer_tx_enabled,
                   cab_orders_file, fsm_hall_requests, fsm_cab_request>>
    /\ UNCHANGED <<coordVars, hwVars, env, call>>

\* recv(fsm_terminate_rx)
FsmTerminate(n) ==
    /\ fsm_status[n] = "running"
    /\ fsm_terminate[n] # <<>>
    /\ fsm_terminate' = Pop(fsm_terminate, n)
    /\ fsm_status' = [fsm_status EXCEPT ![n] = "terminated"]
    /\ fsm_state' = SendToCoord(fsm_state, n, <<>>)
    /\ fsm_order_complete' = SendToCoord(fsm_order_complete, n, <<>>)
    /\ UNCHANGED <<fsm, hw_floor_sensor, hw_obstruction, hw_stop_button,
                   hw_motor_direction, hw_door_light, hw_floor_indicator, peer_tx_enabled,
                   cab_orders_file, fsm_hall_requests, fsm_cab_request>>
    /\ UNCHANGED <<coordVars, hwVars, env, call>>

\* default(100 ms), behaviour Idle
tick_idle(n) ==
    LET F == fsm[n]
        co == complete_orders(F.state, F.hall_requests)
        opened == [co.state EXCEPT !.behaviour = "DoorOpen"]
        st1 == IF co.orders_completed THEN opened ELSE co.state
        dir == choose_direction(st1, co.hall_requests)
        st2 == [st1 EXCEPT !.direction = dir,
                           !.behaviour = IF dir # "Stop" THEN "Moving" ELSE @]
    IN  [f |-> [F EXCEPT !.state = st2,
                         !.hall_requests = co.hall_requests,
                         !.door_timer = IF co.orders_completed THEN "running" ELSE @,
                         !.motor_timer = IF dir # "Stop" THEN "running" ELSE @],
         motor |-> IF dir # "Stop" THEN <<to_u8(dir)>> ELSE <<>>,
         door |-> IF co.orders_completed THEN <<TRUE>> ELSE <<>>,
         states |-> IF co.orders_completed THEN <<opened>> ELSE <<>>,
         orders |-> co.sent,
         file |-> IF co.saved THEN co.state.cab_requests ELSE cab_orders_file[n],
         indicator |-> hw_floor_indicator[n],
         peer |-> peer_tx_enabled[n]]

\* tick_door_open that completes the orders before it chooses the direction
tick_door_open_mut(n) ==
    LET F == fsm[n]
        co == complete_orders(F.state, F.hall_requests)
        dir == choose_direction(co.state, co.hall_requests)
        st == [co.state EXCEPT !.direction = dir,
                               !.behaviour = IF dir = "Stop" THEN "Idle" ELSE "Moving"]
    IN  IF F.obstruction
        THEN [FsmQuiet(n) EXCEPT !.f.door_timer = "running"]
        ELSE IF F.door_timer = "expired"
        THEN [f |-> [F EXCEPT !.state = st,
                              !.hall_requests = co.hall_requests,
                              !.motor_timer = IF dir # "Stop" THEN "running" ELSE @],
              motor |-> <<to_u8(dir)>>,
              door |-> <<FALSE>>,
              states |-> <<st>>,
              orders |-> co.sent,
              file |-> IF co.saved THEN co.state.cab_requests ELSE cab_orders_file[n],
              indicator |-> hw_floor_indicator[n],
              peer |-> peer_tx_enabled[n]]
        ELSE FsmQuiet(n)

\* default(100 ms), behaviour DoorOpen
tick_door_open(n) ==
    LET F == fsm[n]
        dir == choose_direction(F.state, F.hall_requests)
        co == complete_orders([F.state EXCEPT !.direction = dir], F.hall_requests)
        st == [co.state EXCEPT !.behaviour = IF dir = "Stop" THEN "Idle" ELSE "Moving"]
    IN  IF F.obstruction
        THEN [FsmQuiet(n) EXCEPT !.f.door_timer = "running"]
        ELSE IF F.door_timer = "expired"
        THEN [f |-> [F EXCEPT !.state = st,
                              !.hall_requests = co.hall_requests,
                              !.motor_timer = IF dir # "Stop" THEN "running" ELSE @],
              motor |-> <<to_u8(dir)>>,
              door |-> <<FALSE>>,
              states |-> <<st>>,
              orders |-> co.sent,
              file |-> IF co.saved THEN co.state.cab_requests ELSE cab_orders_file[n],
              indicator |-> hw_floor_indicator[n],
              peer |-> peer_tx_enabled[n]]
        ELSE FsmQuiet(n)

\* tick_moving that sends peer-TX disable without noting it in peer_enable
tick_moving_mut(n) ==
    LET F == fsm[n]
    IN  IF F.motor_timer = "expired"
        THEN [FsmQuiet(n) EXCEPT !.peer = IF F.peer_enable THEN FALSE ELSE @,
                                 !.motor = <<to_u8(F.state.direction)>>]
        ELSE FsmQuiet(n)

\* default(100 ms), behaviour Moving
tick_moving(n) ==
    LET F == fsm[n]
    IN  IF F.motor_timer = "expired"
        THEN [FsmQuiet(n) EXCEPT !.f.peer_enable = FALSE,
                                 !.peer = IF F.peer_enable THEN FALSE ELSE @,
                                 !.motor = <<to_u8(F.state.direction)>>]
        ELSE FsmQuiet(n)

\* FsmTick that sends door lamp off on every tick in DoorOpen
FsmTick_mut(n) ==
    /\ fsm_status[n] = "running"
    /\ FsmIdleChannels(n)
    /\ FsmRoom(n)
    /\ \/ /\ fsm[n].state.behaviour = "Idle"
          /\ FsmApply(n, tick_idle(n))
       \/ /\ fsm[n].state.behaviour = "DoorOpen"
          /\ FsmApply(n, [tick_door_open(n) EXCEPT !.door = <<FALSE>>])
       \/ /\ fsm[n].state.behaviour = "Moving"
          /\ FsmApply(n, tick_moving(n))
    /\ UNCHANGED <<hw_floor_sensor, hw_obstruction, hw_stop_button, fsm_terminate,
                   fsm_hall_requests, fsm_cab_request>>
    /\ UNCHANGED <<coordVars, hwVars, env, call>>

FsmTick(n) ==
    /\ fsm_status[n] = "running"
    /\ FsmIdleChannels(n)
    /\ FsmRoom(n)
    /\ \/ /\ fsm[n].state.behaviour = "Idle"
          /\ FsmApply(n, tick_idle(n))
       \/ /\ fsm[n].state.behaviour = "DoorOpen"
          /\ FsmApply(n, tick_door_open(n))
       \/ /\ fsm[n].state.behaviour = "Moving"
          /\ FsmApply(n, tick_moving(n))
    /\ UNCHANGED <<hw_floor_sensor, hw_obstruction, hw_stop_button, fsm_terminate,
                   fsm_hall_requests, fsm_cab_request>>
    /\ UNCHANGED <<coordVars, hwVars, env, call>>

\* time passes: the deadline of the door timer is reached (it is read in DoorOpen only)
DoorTimerExpires(n) ==
    /\ fsm_status[n] = "running"
    /\ fsm[n].state.behaviour = "DoorOpen"
    /\ fsm[n].door_timer = "running"
    /\ fsm' = [fsm EXCEPT ![n].door_timer = "expired"]
    /\ UNCHANGED <<fsm_status, hw_floor_sensor, hw_obstruction, hw_stop_button, fsm_terminate,
                   hw_motor_direction, hw_door_light, hw_floor_indicator, peer_tx_enabled,
                   cab_orders_file, linkVars>>
    /\ UNCHANGED <<coordVars, hwVars, env, call>>

\* time passes: the deadline of the motor timer is reached with no floor-sensor edge
\* (it is read in Moving only)
MotorTimerExpires(n) ==
    /\ fsm_status[n] = "running"
    /\ fsm[n].state.behaviour = "Moving"
    /\ fsm[n].motor_timer = "running"
    /\ hw_floor_sensor[n] = <<>>
    /\ env.motor_timeouts > 0
    /\ env' = [env EXCEPT !.motor_timeouts = @ - 1]
    /\ fsm' = [fsm EXCEPT ![n].motor_timer = "expired"]
    /\ UNCHANGED <<fsm_status, hw_floor_sensor, hw_obstruction, hw_stop_button, fsm_terminate,
                   hw_motor_direction, hw_door_light, hw_floor_indicator, peer_tx_enabled,
                   cab_orders_file, linkVars>>
    /\ UNCHANGED <<coordVars, hwVars, call>>


(***************************************************************************)
(* The elevator and its driver (elevator/hardware.rs).  The cabin is at    *)
(* position pos in 0..2*(NFloors-1): an even pos is floor pos/2, an odd    *)
(* one lies between two floors.                                            *)
(***************************************************************************)
TopPos == 2 * (NFloors - 1)
AtFloor(n) == hw[n].pos % 2 = 0
FloorOf(n) == hw[n].pos \div 2

NoLamps == [f \in Floors |-> [k \in {HALL_UP, HALL_DOWN, CAB} |-> FALSE]]

\* ElevatorDriver::new and the prologue of run(): the call lamps are switched off and
\* the obstruction switch is read once
NewDriver(obstruction) ==
    [current_floor |-> U8_MAX, obstruction |-> obstruction, requests |-> NoLamps]

DriverRunning(n) == driver[n].status = "running"

\* the floor sensor reads a floor the driver has not reported yet
FloorUnreported(n) == AtFloor(n) /\ FloorOf(n) # driver[n].d.current_floor

\* the cabin moves one half floor in the direction of the motor; the driver polls
\* faster than the cabin moves, so a floor is reported before the cabin leaves it
Move(n) ==
    /\ ~(DriverRunning(n) /\ FloorUnreported(n))
    /\ \/ /\ hw[n].motor = DIRN_UP /\ hw[n].pos < TopPos
          /\ hw' = [hw EXCEPT ![n].pos = @ + 1]
       \/ /\ hw[n].motor = DIRN_DOWN /\ hw[n].pos > 0
          /\ hw' = [hw EXCEPT ![n].pos = @ - 1]
    /\ UNCHANGED <<driver, coordVars, linkVars, fsmVars, env, call>>

\* "Check if new floor is hit"
DriverPollFloor(n) ==
    /\ DriverRunning(n)
    /\ FloorUnreported(n)
    /\ Room(hw_floor_sensor, n)
    /\ driver' = [driver EXCEPT ![n].d.current_floor = FloorOf(n)]
    /\ hw_floor_sensor' = Push(hw_floor_sensor, n, <<FloorOf(n)>>)
    /\ UNCHANGED <<fsm, fsm_status, hw_obstruction, hw_stop_button, fsm_terminate,
                   hw_motor_direction, hw_door_light, hw_floor_indicator, peer_tx_enabled,
                   cab_orders_file>>
    /\ UNCHANGED <<hw, coordVars, linkVars, env, call>>

\* "Check if stop button is pressed"
DriverPollStopButton(n) ==
    /\ DriverRunning(n)
    /\ env.stops > 0
    /\ Room(hw_stop_button, n)
    /\ env' = [env EXCEPT !.stops = @ - 1]
    /\ hw_stop_button' = Push(hw_stop_button, n, <<TRUE>>)
    /\ UNCHANGED <<fsm, fsm_status, hw_floor_sensor, hw_obstruction, fsm_terminate,
                   hw_motor_direction, hw_door_light, hw_floor_indicator, peer_tx_enabled,
                   cab_orders_file>>
    /\ UNCHANGED <<hwVars, coordVars, linkVars, call>>

\* "Check if obstruction is toggled": the switch is toggled and the driver reports it
DriverPollObstruction(n) ==
    /\ DriverRunning(n)
    /\ env.obstructions > 0
    /\ Room(hw_obstruction, n)
    /\ env' = [env EXCEPT !.obstructions = @ - 1]
    /\ hw' = [hw EXCEPT ![n].obstruction = ~@]
    /\ driver' = [driver EXCEPT ![n].d.obstruction = ~hw[n].obstruction]
    /\ hw_obstruction' = Push(hw_obstruction, n, <<~hw[n].obstruction>>)
    /\ UNCHANGED <<fsm, fsm_status, hw_floor_sensor, hw_stop_button, fsm_terminate,
                   hw_motor_direction, hw_door_light, hw_floor_indicator, peer_tx_enabled,
                   cab_orders_file>>
    /\ UNCHANGED <<coordVars, linkVars, call>>

\* "Check if any call buttons are pressed": button (floor, kind) reads pressed
DriverPollButton(n, floor, kind) ==
    /\ DriverRunning(n)
    /\ ~CoordGone(n)
    /\ env.presses_at[n] > 0
    /\ ~driver[n].d.requests[floor][kind]
    /\ Room(hw_request, n)
    /\ env' = [env EXCEPT !.presses_at[n] = @ - 1,
                          !.pending = IF kind = CAB THEN @ ELSE @ \cup {<<floor, kind>>}]
    /\ driver' = [driver EXCEPT ![n].d.requests[floor][kind] = TRUE]
    /\ hw_request' = Push(hw_request, n, << <<floor, kind>> >>)
    /\ UNCHANGED <<elevator_data, coord_status, net_data_recv, net_peer_update,
                   hw_button_light, net_data_send>>
    /\ UNCHANGED <<hw, linkVars, fsmVars, call>>

\* recv(hw_motor_direction_rx)
DriverMotorDirection(n) ==
    /\ DriverRunning(n)
    /\ hw_motor_direction[n] # <<>>
    /\ hw' = [hw EXCEPT ![n].motor = Head(hw_motor_direction[n])]
    /\ hw_motor_direction' = Pop(hw_motor_direction, n)
    /\ UNCHANGED <<fsm, fsm_status, hw_floor_sensor, hw_obstruction, hw_stop_button,
                   fsm_terminate, hw_door_light, hw_floor_indicator, peer_tx_enabled,
                   cab_orders_file>>
    /\ UNCHANGED <<driver, coordVars, linkVars, env, call>>

\* recv(hw_door_light_rx)
DriverDoorLight(n) ==
    /\ DriverRunning(n)
    /\ hw_door_light[n] # <<>>
    /\ hw' = [hw EXCEPT ![n].door_light = Head(hw_door_light[n])]
    /\ hw_door_light' = Pop(hw_door_light, n)
    /\ UNCHANGED <<fsm, fsm_status, hw_floor_sensor, hw_obstruction, hw_stop_button,
                   fsm_terminate, hw_motor_direction, hw_floor_indicator, peer_tx_enabled,
                   cab_orders_file>>
    /\ UNCHANGED <<driver, coordVars, linkVars, env, call>>

\* DriverButtonLight that clears the pending flag on every lamp command
DriverButtonLight_mut(n) ==
    /\ DriverRunning(n)
    /\ hw_button_light[n] # <<>>
    /\ LET msg == Head(hw_button_light[n])
       IN  /\ hw' = [hw EXCEPT ![n].lamps[msg[1]][msg[2]] = msg[3]]
           /\ driver' = [driver EXCEPT ![n].d.requests[msg[1]][msg[2]] = FALSE]
    /\ hw_button_light' = Pop(hw_button_light, n)
    /\ UNCHANGED <<elevator_data, coord_status, net_data_recv, net_peer_update,
                   hw_request, net_data_send>>
    /\ UNCHANGED <<linkVars, fsmVars, env, call>>

\* recv(hw_button_light_rx): the lamp is set and the pending flag follows it
DriverButtonLight(n) ==
    /\ DriverRunning(n)
    /\ hw_button_light[n] # <<>>
    /\ LET msg == Head(hw_button_light[n])
       IN  /\ hw' = [hw EXCEPT ![n].lamps[msg[1]][msg[2]] = msg[3]]
           /\ driver' = [driver EXCEPT ![n].d.requests[msg[1]][msg[2]] = msg[3]]
    /\ hw_button_light' = Pop(hw_button_light, n)
    /\ UNCHANGED <<elevator_data, coord_status, net_data_recv, net_peer_update,
                   hw_request, net_data_send>>
    /\ UNCHANGED <<linkVars, fsmVars, env, call>>

(***************************************************************************)
(* Coordinator (coordinator/coordinator.rs)                                *)
(***************************************************************************)
\* remove_error_states
\* remove_error_states that retains every state
remove_error_states_mut(states) ==
    [id \in DOMAIN states |-> states[id]]

remove_error_states(states) ==
    [id \in { i \in DOMAIN states : states[i].behaviour # "Error" } |-> states[id]]

\* The external hall_request_assigner executable: every call of the matrix is assigned
\* to exactly one of the cabins it is given.  LocalShares is the set of matrices it may
\* return for the cabin local: nothing if local is not among the cabins, every call if
\* local is the only cabin, otherwise any part of the calls.
LocalShares(hall, ids, local) ==
    IF local \notin ids THEN {NoHall}
    ELSE IF ids = {local} THEN {hall}
    ELSE { m \in HallMatrices : \A f \in Floors, k \in HallKinds : m[f][k] => hall[f][k] }

\* the matrices hall_request_assigner may send to the FSM
Shares(data, local) ==
    IF DOMAIN remove_error_states(data.states) = {} THEN {data.hall_requests}
    ELSE LocalShares(data.hall_requests, DOMAIN remove_error_states(data.states), local)

\* hall_request_assigner that hands the snapshot to the network before it bumps version
hall_request_assigner_mut(data, transmit, share) ==
    LET bumped == [data EXCEPT !.version = @ + 1]
    IN  [data |-> IF transmit THEN bumped ELSE data,
         to_fsm |-> <<share>>,
         to_net |-> IF transmit THEN <<data>> ELSE <<>>]

\* hall_request_assigner(transmit), the solver having returned share for the local cabin:
\* the data after it, what it sends to the FSM and what it sends to the network
hall_request_assigner(data, transmit, share) ==
    LET bumped == [data EXCEPT !.version = @ + 1]
    IN  [data |-> IF transmit THEN bumped ELSE data,
         to_fsm |-> <<share>>,
         to_net |-> IF transmit THEN <<bumped>> ELSE <<>>]

\* the lamp commands of Accept: per floor, HALL_DOWN then HALL_UP, where the flag differs
RECURSIVE LampDeltas(_, _, _)
LampDeltas(old, new, floor) ==
    IF floor = NFloors THEN <<>>
    ELSE (IF new[floor][HALL_DOWN] # old[floor][HALL_DOWN]
          THEN << <<floor, HALL_DOWN, new[floor][HALL_DOWN]>> >> ELSE <<>>)
         \o (IF new[floor][HALL_UP] # old[floor][HALL_UP]
             THEN << <<floor, HALL_UP, new[floor][HALL_UP]>> >> ELSE <<>>)
         \o LampDeltas(old, new, floor + 1)

\* the lamp commands of NewElevatorState: the cab flags newly raised
RECURSIVE CabLampsOn(_, _, _)
CabLampsOn(old, new, floor) ==
    IF floor = NFloors THEN <<>>
    ELSE (IF ~old[floor] /\ new[floor] THEN << <<floor, CAB, TRUE>> >> ELSE <<>>)
         \o CabLampsOn(old, new, floor + 1)

\* the FSM has dropped its receivers: a send to it fails
FsmGone(n) == fsm_status[n] \in {"panicked", "terminated"}

\* the driver has dropped its receivers: a send to it fails
DriverGone(n) == driver[n].status \in {"terminated", "exited"}

\* no driver thread exists: the environment holds the receiver of the lamp channel and
\* takes every command as it is sent; the channel then shows what the last handler sent
NoDriver(n) == driver[n].status = "off"

\* hw_button_light_tx.send
SendToDriver(ch, n, msgs) ==
    IF NoDriver(n) THEN [ch EXCEPT ![n] = msgs] ELSE Push(ch, n, msgs)

\* The Coordinator handles an event: it runs, its FSM and its driver hold their
\* receivers (a send to a dropped receiver ends the Coordinator), and there is
\* room in the channels to the driver and to the FSM.  A handler that transmits also
\* needs room in net_data_send.
CoordReady(n) ==
    /\ coord_status[n] = "running"
    /\ ~FsmGone(n) /\ ~DriverGone(n)
    /\ NoDriver(n) \/ Room(hw_button_light, n)
    /\ Room(fsm_hall_requests, n) /\ Room(fsm_cab_request, n)

CoordTransmits(n) ==
    /\ Room(net_data_send, n)
    /\ elevator_data[n].version < env.max_version

\* What one handler of the Coordinator does, given as the record out:
\*   data: elevator_data after it, lamps/to_fsm/cabs/to_net: what it sends.
CoordApply(n, out) ==
    /\ elevator_data' = [elevator_data EXCEPT ![n] = out.data]
    /\ hw_button_light' = SendToDriver(hw_button_light, n, out.lamps)
    /\ fsm_hall_requests' = Push(fsm_hall_requests, n, out.to_fsm)
    /\ fsm_cab_request' = Push(fsm_cab_request, n, out.cabs)
    /\ net_data_send' = Push(net_data_send, n, out.to_net)
    /\ UNCHANGED coord_status

\* a handler that panics (unwrap of the missing local entry) before it has sent anything
CoordPanic(n) ==
    /\ coord_status' = [coord_status EXCEPT ![n] = "panicked"]
    /\ hw_button_light' = SendToDriver(hw_button_light, n, <<>>)
    /\ UNCHANGED <<elevator_data, fsm_hall_requests, fsm_cab_request, net_data_send>>

CoordQuiet(n) ==
    [data |-> elevator_data[n], lamps |-> <<>>, to_fsm |-> <<>>, cabs |-> <<>>,
     to_net |-> <<>>]

\* MergeType::Accept: version, hall_requests and states are overwritten
AcceptedData(incoming) ==
    [version |-> incoming.version, hall_requests |-> incoming.hall_requests,
     states |-> incoming.states]

\* accept_package that diffs the hall matrices after it has overwritten the local one
accept_package_mut(n, incoming, share) ==
    LET local == AcceptedData(incoming)
        hra == hall_request_assigner(AcceptedData(incoming), FALSE, share)
    IN  [data |-> hra.data,
         lamps |-> LampDeltas(local.hall_requests, incoming.hall_requests, 0),
         to_fsm |-> hra.to_fsm, cabs |-> <<>>, to_net |-> hra.to_net]

\* Event::NewPackage, MergeType::Accept
accept_package(n, incoming, share) ==
    LET local == elevator_data[n]
        hra == hall_request_assigner(AcceptedData(incoming), FALSE, share)
    IN  [data |-> hra.data,
         lamps |-> LampDeltas(local.hall_requests, incoming.hall_requests, 0),
         to_fsm |-> hra.to_fsm, cabs |-> <<>>, to_net |-> hra.to_net]

\* merge_package that takes the incoming state of the local id as well
merge_package_mut(n, incoming) ==
    LET local == elevator_data[n]
        taken == DOMAIN incoming.states
    IN  [CoordQuiet(n) EXCEPT
            !.data.hall_requests =
                [f \in Floors |-> [k \in HallKinds |->
                    local.hall_requests[f][k] \/ incoming.hall_requests[f][k]]],
            !.data.states =
                [id \in DOMAIN local.states \cup taken |->
                    IF id \in taken THEN incoming.states[id] ELSE local.states[id]]]

\* Event::NewPackage, MergeType::Merge
merge_package(n, incoming) ==
    LET local == elevator_data[n]
        taken == DOMAIN incoming.states \ {n}
    IN  [CoordQuiet(n) EXCEPT
            !.data.hall_requests =
                [f \in Floors |-> [k \in HallKinds |->
                    local.hall_requests[f][k] \/ incoming.hall_requests[f][k]]],
            !.data.states =
                [id \in DOMAIN local.states \cup taken |->
                    IF id \in taken THEN incoming.states[id] ELSE local.states[id]]]

\* recv(net_data_recv_rx)
CoordNewPackage(n) ==
    /\ CoordReady(n)
    /\ net_data_recv[n] # <<>>
    /\ net_data_recv' = Pop(net_data_recv, n)
    /\ LET incoming == Head(net_data_recv[n])
       IN  \E last_key \in LastKeys(elevator_data[n]) :
             LET merge_type == check_merge_type(elevator_data[n], incoming, last_key)
             IN  \/ /\ merge_type = "Accept"
                    /\ \E share \in Shares(AcceptedData(incoming), n) :
                          CoordApply(n, accept_package(n, incoming, share))
                 \/ /\ merge_type = "Merge"
                    /\ CoordApply(n, merge_package(n, incoming))
                 \/ /\ merge_type = "Reject"
                    /\ CoordApply(n, CoordQuiet(n))
    /\ UNCHANGED <<net_peer_update, hw_request, fsm_state, fsm_order_complete>>
    /\ UNCHANGED <<fsmVars, hwVars, env, call>>

\* the state inserted for a new peer
DefaultState ==
    [behaviour |-> "Idle", floor |-> 0, direction |-> "Stop", cab_requests |-> NoCab]

\* peer_update_states without the test id != local_id in the loop over the lost ids
peer_update_states_mut(n, update) ==
    LET local == elevator_data[n]
        kept == DOMAIN local.states \ update.lost
        added == IF update.new = "none" THEN {} ELSE {update.new}
    IN  [id \in kept \cup added |-> IF id \in added THEN DefaultState ELSE local.states[id]]

\* Event::NewPeerUpdate: update.lost is the set of lost ids, update.new an id or "none"
peer_update_states(n, update) ==
    LET local == elevator_data[n]
        kept == DOMAIN local.states \ (update.lost \ {n})
        added == IF update.new = "none" THEN {} ELSE {update.new}
    IN  [id \in kept \cup added |-> IF id \in added THEN DefaultState ELSE local.states[id]]

\* recv(net_peer_update_rx)
CoordNewPeerUpdate(n) ==
    /\ CoordReady(n)
    /\ net_peer_update[n] # <<>>
    /\ net_peer_update' = Pop(net_peer_update, n)
    /\ LET update == Head(net_peer_update[n])
           data1 == [elevator_data[n] EXCEPT !.states = peer_update_states(n, update)]
       IN  /\ update.new # "none" => CoordTransmits(n)
           /\ \E share1 \in Shares(data1, n) :
                 LET hra1 == IF update.lost # {}
                             THEN hall_request_assigner(data1, FALSE, share1)
                             ELSE [data |-> data1, to_fsm |-> <<>>, to_net |-> <<>>]
                 IN  \E share2 \in Shares(hra1.data, n) :
                        LET hra2 == IF update.new # "none"
                                    THEN hall_request_assigner(hra1.data, TRUE, share2)
                                    ELSE [data |-> hra1.data, to_fsm |-> <<>>,
                                          to_net |-> <<>>]
                        IN  CoordApply(n, [data |-> hra2.data, lamps |-> <<>>,
                                           to_fsm |-> hra1.to_fsm \o hra2.to_fsm,
                                           cabs |-> <<>>, to_net |-> hra2.to_net])
    /\ UNCHANGED <<net_data_recv, hw_request, fsm_state, fsm_order_complete>>
    /\ UNCHANGED <<fsmVars, hwVars, env, call>>

\* recv(hw_request_rx)
\* CoordRequestReceived that forwards a cab request without storing it
CoordRequestReceived_mut(n) ==
    /\ CoordReady(n)
    /\ hw_request[n] # <<>>
    /\ hw_request' = Pop(hw_request, n)
    /\ LET request == Head(hw_request[n])
           local == elevator_data[n]
       IN  IF request[2] = CAB
           THEN IF n \notin DOMAIN local.states
                THEN CoordPanic(n)
                ELSE CoordApply(n, [CoordQuiet(n) EXCEPT
                                                !.cabs = <<request[1]>>,
                        !.lamps = << <<request[1], CAB, TRUE>> >>])
           ELSE /\ CoordTransmits(n)
                /\ LET data1 == [local EXCEPT !.hall_requests[request[1]][request[2]] = TRUE]
                   IN  \E share \in Shares(data1, n) :
                          LET hra == hall_request_assigner(data1, TRUE, share)
                          IN  CoordApply(n, [data |-> hra.data,
                                             lamps |-> << <<request[1], request[2], TRUE>> >>,
                                             to_fsm |-> hra.to_fsm, cabs |-> <<>>,
                                             to_net |-> hra.to_net])
    /\ UNCHANGED <<net_data_recv, net_peer_update, fsm_state, fsm_order_complete>>
    /\ UNCHANGED <<fsmVars, hwVars, env, call>>

CoordRequestReceived(n) ==
    /\ CoordReady(n)
    /\ hw_request[n] # <<>>
    /\ hw_request' = Pop(hw_request, n)
    /\ LET request == Head(hw_request[n])
           local == elevator_data[n]
       IN  IF request[2] = CAB
           THEN IF n \notin DOMAIN local.states
                THEN CoordPanic(n)
                ELSE CoordApply(n, [CoordQuiet(n) EXCEPT
                        !.data.states[n].cab_requests[request[1]] = TRUE,
                        !.cabs = <<request[1]>>,
                        !.lamps = << <<request[1], CAB, TRUE>> >>])
           ELSE /\ CoordTransmits(n)
                /\ LET data1 == [local EXCEPT !.hall_requests[request[1]][request[2]] = TRUE]
                   IN  \E share \in Shares(data1, n) :
                          LET hra == hall_request_assigner(data1, TRUE, share)
                          IN  CoordApply(n, [data |-> hra.data,
                                             lamps |-> << <<request[1], request[2], TRUE>> >>,
                                             to_fsm |-> hra.to_fsm, cabs |-> <<>>,
                                             to_net |-> hra.to_net])
    /\ UNCHANGED <<net_data_recv, net_peer_update, fsm_state, fsm_order_complete>>
    /\ UNCHANGED <<fsmVars, hwVars, env, call>>

\* recv(fsm_state_rx)
\* CoordNewElevatorState that sends a lamp command for every cab flag of the published state
CoordNewElevatorState_mut(n) ==
    /\ CoordReady(n)
    /\ fsm_state[n] # <<>>
    /\ fsm_state' = Pop(fsm_state, n)
    /\ LET elevator_state == Head(fsm_state[n])
           local == elevator_data[n]
       IN  IF n \notin DOMAIN local.states
           THEN CoordPanic(n)
           ELSE /\ CoordTransmits(n)
                /\ LET data1 == [local EXCEPT !.states[n] = elevator_state]
                   IN  \E share \in Shares(data1, n) :
                          LET hra == hall_request_assigner(data1, TRUE, share)
                          IN  CoordApply(n, [data |-> hra.data,
                                 lamps |-> CabLampsOn(NoCab,
                                                      elevator_state.cab_requests, 0),
                                 to_fsm |-> hra.to_fsm, cabs |-> <<>>,
                                 to_net |-> hra.to_net])
    /\ UNCHANGED <<net_data_recv, net_peer_update, hw_request, fsm_order_complete>>
    /\ UNCHANGED <<fsmVars, hwVars, env, call>>

CoordNewElevatorState(n) ==
    /\ CoordReady(n)
    /\ fsm_state[n] # <<>>
    /\ fsm_state' = Pop(fsm_state, n)
    /\ LET elevator_state == Head(fsm_state[n])
           local == elevator_data[n]
       IN  IF n \notin DOMAIN local.states
           THEN CoordPanic(n)
           ELSE /\ CoordTransmits(n)
                /\ LET data1 == [local EXCEPT !.states[n] = elevator_state]
                   IN  \E share \in Shares(data1, n) :
                          LET hra == hall_request_assigner(data1, TRUE, share)
                          IN  CoordApply(n, [data |-> hra.data,
                                 lamps |-> CabLampsOn(local.states[n].cab_requests,
                                                      elevator_state.cab_requests, 0),
                                 to_fsm |-> hra.to_fsm, cabs |-> <<>>,
                                 to_net |-> hra.to_net])
    /\ UNCHANGED <<net_data_recv, net_peer_update, hw_request, fsm_order_complete>>
    /\ UNCHANGED <<fsmVars, hwVars, env, call>>

\* recv(fsm_order_complete_rx)
\* CoordOrderComplete that clears both hall flags of the floor of a hall completion
CoordOrderComplete_mut(n) ==
    /\ CoordReady(n)
    /\ fsm_order_complete[n] # <<>>
    /\ fsm_order_complete' = Pop(fsm_order_complete, n)
    /\ LET completed_order == Head(fsm_order_complete[n])
           local == elevator_data[n]
           floor == completed_order[1]
       IN  IF completed_order[2] = CAB /\ n \notin DOMAIN local.states
           THEN CoordPanic(n)
           ELSE /\ CoordTransmits(n)
                /\ LET data1 == IF completed_order[2] = CAB
                                THEN [local EXCEPT !.states[n].cab_requests[floor] = FALSE]
                                ELSE [local EXCEPT
                                         !.hall_requests[floor] = NoHall[floor]]
                   IN  \E share \in Shares(data1, n) :
                          LET hra == hall_request_assigner(data1, TRUE, share)
                          IN  CoordApply(n, [data |-> hra.data,
                                 lamps |-> << <<floor, completed_order[2], FALSE>> >>,
                                 to_fsm |-> hra.to_fsm, cabs |-> <<>>,
                                 to_net |-> hra.to_net])
    /\ UNCHANGED <<net_data_recv, net_peer_update, hw_request, fsm_state>>
    /\ UNCHANGED <<fsmVars, hwVars, env, call>>

CoordOrderComplete(n) ==
    /\ CoordReady(n)
    /\ fsm_order_complete[n] # <<>>
    /\ fsm_order_complete' = Pop(fsm_order_complete, n)
    /\ LET completed_order == Head(fsm_order_complete[n])
           local == elevator_data[n]
           floor == completed_order[1]
       IN  IF completed_order[2] = CAB /\ n \notin DOMAIN local.states
           THEN CoordPanic(n)
           ELSE /\ CoordTransmits(n)
                /\ LET data1 == IF completed_order[2] = CAB
                                THEN [local EXCEPT !.states[n].cab_requests[floor] = FALSE]
                                ELSE [local EXCEPT
                                         !.hall_requests[floor][completed_order[2]] = FALSE]
                   IN  \E share \in Shares(data1, n) :
                          LET hra == hall_request_assigner(data1, TRUE, share)
                          IN  CoordApply(n, [data |-> hra.data,
                                 lamps |-> << <<floor, completed_order[2], FALSE>> >>,
                                 to_fsm |-> hra.to_fsm, cabs |-> <<>>,
                                 to_net |-> hra.to_net])
    /\ UNCHANGED <<net_data_recv, net_peer_update, hw_request, fsm_state>>
    /\ UNCHANGED <<fsmVars, hwVars, env, call>>

(***************************************************************************)
(* Network (network/network.rs): the data-tx and data-rx threads, and the  *)
(* peer-rx thread of the peers library as the source of peer updates.      *)
(***************************************************************************)
\* the nodes whose data-rx thread can hand a snapshot to its Coordinator
Listening(k) == k \in Nodes /\ coord_status[k] = "running"

\* data_tx: one snapshot is taken from net_data_send and sent (send_ack) to every key of
\* its states, the sender's own id included.  reached is the set of peers whose data-rx
\* thread receives it (recv_ack); for the others every retry fails.
DataTx(n) ==
    /\ net_data_send[n] # <<>>
    /\ LET data == Head(net_data_send[n])
           targets == { k \in DOMAIN data.states : Listening(k) }
       IN  \E reached \in SUBSET targets :
             /\ \A k \in reached : Room(net_data_recv, k)
             /\ net_data_recv' = [k \in Nodes |->
                    IF k \in reached THEN Append(net_data_recv[k], data)
                    ELSE net_data_recv[k]]
             /\ IF reached = targets THEN UNCHANGED env
                ELSE /\ env.drops > 0
                     /\ env' = [env EXCEPT !.drops = @ - 1]
    /\ net_data_send' = Pop(net_data_send, n)
    /\ UNCHANGED <<elevator_data, coord_status, net_peer_update, hw_request, hw_button_light>>
    /\ UNCHANGED <<linkVars, fsmVars, hwVars, call>>

\* peers::rx: the peer-rx thread of node n reports the ids it sees for the first time
\* (new, at most one) and the ids it has not heard for the silence window (lost)
PeerRx(n) ==
    /\ coord_status[n] = "running"
    /\ env.peer_updates[n] > 0
    /\ Room(net_peer_update, n)
    /\ \E new \in {"none"} \cup (Nodes \ env.seen[n]), lost \in SUBSET env.seen[n] :
          /\ new # "none" \/ lost # {}
          /\ net_peer_update' = Push(net_peer_update, n, <<[new |-> new, lost |-> lost]>>)
          /\ env' = [env EXCEPT !.peer_updates[n] = @ - 1,
                                !.seen[n] = (@ \ lost) \cup (IF new = "none" THEN {} ELSE {new}),
                                !.lost[n] = (@ \cup lost) \ {new},
                                !.held[n] = IF lost = {} THEN @
                                            ELSE {b \in Floors \X HallKinds :
                                                    elevator_data[n].hall_requests[b[1]][b[2]]}]
    /\ UNCHANGED <<elevator_data, coord_status, net_data_recv, hw_request, hw_button_light,
                   net_data_send>>
    /\ UNCHANGED <<linkVars, fsmVars, hwVars, call>>

(***************************************************************************)
(* Initial states.  on is the set of nodes whose process runs; the threads *)
(* of the other nodes do not exist ("off").                                *)
(***************************************************************************)
\* env: what the environment may still do (budgets), what the peer-rx thread of each
\* node has seen and reported lost (held: the hall calls the node held when its peer-rx
\* thread last reported a loss), and the history of the hall calls: pending holds the
\* calls whose button was pressed and that no FSM has completed since, completed the
\* calls some FSM has completed; owed holds the cab calls the Coordinator of a node had
\* taken when its process was last killed; offline holds the nodes whose local-IP probe
\* failed at start
NoBudget ==
    [stops |-> 0, obstructions |-> 0, motor_timeouts |-> 0,
     hall_msgs |-> 0, cab_msgs |-> 0, drops |-> 0,
     presses_at |-> [n \in Nodes |-> 0], peer_updates |-> [n \in Nodes |-> 0],
     seen |-> [n \in Nodes |-> {}], lost |-> [n \in Nodes |-> {}],
     held |-> [n \in Nodes |-> {}],
     kills |-> 0, owed |-> [n \in Nodes |-> {}],
     pending |-> {}, completed |-> {}, offline |-> {}, lamp_msgs |-> 0,
     snapshots |-> 0, garbage |-> 0, foreign |-> 0,
     terminations |-> 0, max_version |-> MaxVersion, max_queue |-> MaxQueue,
     coordinator_terminate |-> [n \in Nodes |-> <<>>], hw_terminate |-> [n \in Nodes |-> <<>>],
     sends |-> <<>>, acked |-> {}, published |-> <<>>]


CoordInit(on) ==
    /\ elevator_data = [n \in Nodes |-> NewElevatorData(n)]
    /\ coord_status = [n \in Nodes |-> IF n \in on THEN "running" ELSE "off"]
    /\ net_data_recv = [n \in Nodes |-> <<>>]
    /\ net_peer_update = [n \in Nodes |-> <<>>]
    /\ hw_request = [n \in Nodes |-> <<>>]
    /\ fsm_state = [n \in Nodes |-> <<>>]
    /\ fsm_order_complete = [n \in Nodes |-> <<>>]
    /\ hw_button_light = [n \in Nodes |-> <<>>]
    /\ fsm_hall_requests = [n \in Nodes |-> <<>>]
    /\ fsm_cab_request = [n \in Nodes |-> <<>>]
    /\ net_data_send = [n \in Nodes |-> <<>>]

\* files: the cab_orders.toml each node finds at start
FsmInit(on, files) ==
    /\ fsm = [n \in Nodes |-> NewFsm]
    /\ fsm_status = [n \in Nodes |-> IF n \in on THEN "init" ELSE "off"]
    /\ hw_floor_sensor = [n \in Nodes |-> <<>>]
    /\ hw_obstruction = [n \in Nodes |-> <<>>]
    /\ hw_stop_button = [n \in Nodes |-> <<>>]
    /\ fsm_terminate = [n \in Nodes |-> <<>>]
    /\ hw_motor_direction = [n \in Nodes |-> <<>>]
    /\ hw_door_light = [n \in Nodes |-> <<>>]
    /\ hw_floor_indicator = [n \in Nodes |-> -1]
    /\ peer_tx_enabled = [n \in Nodes |-> TRUE]
    /\ cab_orders_file = files

\* positions: where each cabin stands when its node starts
HwInit(on, positions) ==
    /\ hw = [n \in Nodes |-> [pos |-> positions[n], motor |-> DIRN_STOP, door_light |-> FALSE,
                              obstruction |-> FALSE, lamps |-> NoLamps]]
    /\ driver = [n \in Nodes |-> [status |-> IF n \in on THEN "running" ELSE "off",
                                  d |-> NewDriver(FALSE)]]

(***************************************************************************)
(* Specification SpecMerge: check_merge_type on bounded inputs              *)
(***************************************************************************)
StatesOver(keys) == [keys -> {NewElevatorState}]

MergeInputs ==
    { [version |-> v, hall_requests |-> NoHall, states |-> s] :
        v \in 0..MaxVersion,
        s \in UNION { StatesOver(keys) : keys \in (SUBSET Ids) \ {{}} } }

MergeInit ==
    /\ CoordInit({})
    /\ FsmInit({}, [n \in Nodes |-> NoCab])
    /\ HwInit({}, [n \in Nodes |-> 0])
    /\ env = NoBudget
    /\ \E l \in MergeInputs, i \in MergeInputs :
          call = [pc |-> "ready", local |-> l, incoming |-> i, result |-> "none"]

CallCheckMergeType ==
    /\ call.pc = "ready"
    /\ \E last_key \in LastKeys(call.local) :
          call' = [call EXCEPT !.pc = "done",
                     !.result = check_merge_type(call.local, call.incoming, last_key)]
    /\ UNCHANGED <<coordVars, linkVars, fsmVars, hwVars, env>>

MergeNext == CallCheckMergeType

SpecMerge == MergeInit /\ [][MergeNext]_vars

(***************************************************************************)
(* C3: check_merge_type returns Merge exactly when the incoming snapshot   *)
(* holds a peer id that is not a key of the local states; otherwise Accept *)
(* exactly when the incoming version is larger; otherwise Reject.          *)
(***************************************************************************)
ClaimedMergeType(local, incoming) ==
    IF \E id \in DOMAIN incoming.states : id \notin DOMAIN local.states THEN "Merge"
    ELSE IF incoming.version > local.version THEN "Accept"
    ELSE "Reject"

C3_MergeClassification ==
    call.pc = "done" => call.result = ClaimedMergeType(call.local, call.incoming)

(***************************************************************************)
(* Specification SpecFsm: the FSM, the driver and the cabin of node E1.    *)
(* The environment stands in for the Coordinator: it sends assignments and *)
(* cab requests and receives what the FSM publishes.                       *)
(***************************************************************************)
FsmNode == "E1"

\* the assignments the environment sends: calls at buttons that exist
HallButtons == { <<f, k>> \in Floors \X HallKinds :
                    ~(f = 0 /\ k = HALL_DOWN) /\ ~(f = NFloors - 1 /\ k = HALL_UP) }
Assignments ==
    { m \in HallMatrices :
        /\ \A f \in Floors, k \in HallKinds : m[f][k] => <<f, k>> \in HallButtons
        /\ Cardinality({ b \in HallButtons : m[b[1]][b[2]] }) <= MaxAssigned }
\* the cab_orders.toml the node finds at start: at most MaxSaved saved calls
SavedFiles == { c \in CabVectors : Cardinality({ f \in Floors : c[f] }) <= MaxSaved }

EnvHallRequests(n) ==
    /\ coord_status[n] = "off"
    /\ env.hall_msgs > 0
    /\ Room(fsm_hall_requests, n)
    /\ env' = [env EXCEPT !.hall_msgs = @ - 1]
    /\ \E m \in Assignments : fsm_hall_requests' = Push(fsm_hall_requests, n, <<m>>)
    /\ UNCHANGED <<fsm_state, fsm_order_complete, fsm_cab_request>>
    /\ UNCHANGED <<coordVars, fsmVars, hwVars, call>>

EnvCabRequest(n) ==
    /\ coord_status[n] = "off"
    /\ env.cab_msgs > 0
    /\ Room(fsm_cab_request, n)
    /\ env' = [env EXCEPT !.cab_msgs = @ - 1]
    /\ \E f \in Floors : fsm_cab_request' = Push(fsm_cab_request, n, <<f>>)
    /\ UNCHANGED <<fsm_state, fsm_order_complete, fsm_hall_requests>>
    /\ UNCHANGED <<coordVars, fsmVars, hwVars, call>>

FsmSpecInit ==
    /\ CoordInit({})
    /\ \E file \in SavedFiles :
          FsmInit({FsmNode}, [n \in Nodes |-> IF n = FsmNode THEN file ELSE NoCab])
    /\ \E p \in 0..TopPos :
          HwInit({FsmNode}, [n \in Nodes |-> IF n = FsmNode THEN p ELSE 0])
    /\ env = [NoBudget EXCEPT !.hall_msgs = MaxHallMsgs, !.cab_msgs = MaxCabMsgs]
    /\ call = [pc |-> "none"]

FsmSpecNext ==
    \/ FsmStart(FsmNode)
    \/ FsmFloorSensor(FsmNode)
    \/ FsmHallRequests(FsmNode)
    \/ FsmCabRequest(FsmNode)
    \/ FsmTick(FsmNode)
    \/ DoorTimerExpires(FsmNode)
    \/ Move(FsmNode)
    \/ DriverPollFloor(FsmNode)
    \/ DriverMotorDirection(FsmNode)
    \/ DriverDoorLight(FsmNode)
    \/ EnvHallRequests(FsmNode)
    \/ EnvCabRequest(FsmNode)

SpecFsm == FsmSpecInit /\ [][FsmSpecNext]_vars

(***************************************************************************)
(* Specification SpecFault: the FSM, the driver and the cabin of node E1   *)
(* with a motor that may fail to reach a floor in time and an obstruction  *)
(* switch that may be toggled.                                             *)
(***************************************************************************)
FaultInit ==
    /\ CoordInit({})
    /\ FsmInit({FsmNode}, [n \in Nodes |-> NoCab])
    /\ \E p \in 0..TopPos :
          HwInit({FsmNode}, [n \in Nodes |-> IF n = FsmNode THEN p ELSE 0])
    /\ env = [NoBudget EXCEPT !.hall_msgs = 1, !.obstructions = MaxObstructions,
                              !.motor_timeouts = MaxMotorTimeouts]
    /\ call = [pc |-> "none"]

FaultNext ==
    \/ FsmStart(FsmNode)
    \/ FsmFloorSensor(FsmNode)
    \/ FsmHallRequests(FsmNode)
    \/ FsmObstruction(FsmNode)
    \/ FsmTick(FsmNode)
    \/ DoorTimerExpires(FsmNode)
    \/ MotorTimerExpires(FsmNode)
    \/ Move(FsmNode)
    \/ DriverPollFloor(FsmNode)
    \/ DriverPollObstruction(FsmNode)
    \/ DriverMotorDirection(FsmNode)
    \/ DriverDoorLight(FsmNode)
    \/ EnvHallRequests(FsmNode)

SpecFault == FaultInit /\ [][FaultNext]_vars

(***************************************************************************)
(* Specification SpecCluster: the Coordinators and the network threads of  *)
(* two nodes.  Of each FSM the start-up and the handling of an assignment  *)
(* are kept; its travel is reduced to FsmServe: the cabin has reached a    *)
(* floor and stands there, and the FSM completes the calls it finds.       *)
(***************************************************************************)
\* the Idle tick (complete_orders, open_door) of an FSM whose cabin stands at floor
FsmServe(n, floor) ==
    /\ fsm_status[n] = "running"
    /\ FsmIdleChannels(n)
    /\ Room(fsm_state, n) /\ Room(fsm_order_complete, n)
    /\ LET F == fsm[n]
           co == complete_orders([F.state EXCEPT !.floor = floor, !.behaviour = "Idle"],
                                 F.hall_requests)
           opened == [co.state EXCEPT !.behaviour = "DoorOpen"]
           served == { <<floor, k>> : k \in { j \in HallKinds : F.hall_requests[floor][j] } }
       IN  /\ co.orders_completed
           /\ IF CoordGone(n)
              THEN \* fsm_order_complete_tx.send(..).unwrap() in complete_orders panics
                   /\ fsm_status' = [fsm_status EXCEPT ![n] = "panicked"]
                   /\ UNCHANGED <<fsm, fsm_order_complete, fsm_state, cab_orders_file, env>>
              ELSE /\ fsm' = [fsm EXCEPT ![n].state = opened,
                                         ![n].hall_requests = co.hall_requests,
                                         ![n].door_timer = "running"]
                   /\ fsm_order_complete' = SendToCoord(fsm_order_complete, n, co.sent)
                   /\ fsm_state' = SendToCoord(fsm_state, n, <<opened>>)
                   /\ cab_orders_file' = [cab_orders_file EXCEPT ![n] =
                                             IF co.saved THEN co.state.cab_requests ELSE @]
                   /\ env' = [env EXCEPT !.pending = @ \ served,
                                         !.completed = @ \cup served]
                   /\ UNCHANGED fsm_status
    /\ UNCHANGED <<hw_floor_sensor, hw_obstruction, hw_stop_button, fsm_terminate,
                   hw_motor_direction, hw_door_light, hw_floor_indicator, peer_tx_enabled,
                   fsm_hall_requests, fsm_cab_request>>
    /\ UNCHANGED <<coordVars, hwVars, call>>

\* the peer updates the peer-rx thread of each node may send
PeerUpdateBudget == [n \in Nodes |-> IF n = "E1" THEN MaxPeerUpdates ELSE 0]

\* the hall button pressed on the panel of each node in SpecCluster
ClusterButtons ==
    [n \in Nodes |-> IF n = "E1" THEN {<<1, HALL_UP>>} ELSE {<<NFloors - 1, HALL_DOWN>>}]

\* a button edge reaches the Coordinator of node n (the driver's hw_request_tx.send)
EnvButton(n, floor, kind) ==
    /\ NoDriver(n)
    /\ coord_status[n] = "running"
    /\ env.presses_at[n] > 0
    /\ Room(hw_request, n)
    /\ env' = [env EXCEPT !.presses_at[n] = @ - 1,
                          !.pending = IF kind = CAB THEN @ ELSE @ \cup {<<floor, kind>>}]
    /\ hw_request' = Push(hw_request, n, << <<floor, kind>> >>)
    /\ UNCHANGED <<elevator_data, coord_status, net_data_recv, net_peer_update,
                   hw_button_light, net_data_send>>
    /\ UNCHANGED <<linkVars, fsmVars, hwVars, call>>

\* Every FSM thread has run its start-up (FsmStart: motor Down, no saved cab call loaded,
\* state published) before a Coordinator handles its first event: main spawns the FSM
\* thread before it constructs the Coordinator.
ClusterInit ==
    /\ elevator_data = [n \in Nodes |-> NewElevatorData(n)]
    /\ coord_status = [n \in Nodes |-> "running"]
    /\ net_data_recv = [n \in Nodes |-> <<>>]
    /\ net_peer_update = [n \in Nodes |-> <<>>]
    /\ hw_request = [n \in Nodes |-> <<>>]
    /\ fsm_state = [n \in Nodes |-> <<NewElevatorState>>]
    /\ fsm_order_complete = [n \in Nodes |-> <<>>]
    /\ hw_button_light = [n \in Nodes |-> <<>>]
    /\ fsm_hall_requests = [n \in Nodes |-> <<>>]
    /\ fsm_cab_request = [n \in Nodes |-> <<>>]
    /\ net_data_send = [n \in Nodes |-> <<>>]
    /\ fsm = [n \in Nodes |-> NewFsm]
    /\ fsm_status = [n \in Nodes |-> "running"]
    /\ hw_floor_sensor = [n \in Nodes |-> <<>>]
    /\ hw_obstruction = [n \in Nodes |-> <<>>]
    /\ hw_stop_button = [n \in Nodes |-> <<>>]
    /\ fsm_terminate = [n \in Nodes |-> <<>>]
    /\ hw_motor_direction = [n \in Nodes |-> <<to_u8("Down")>>]
    /\ hw_door_light = [n \in Nodes |-> <<>>]
    /\ hw_floor_indicator = [n \in Nodes |-> -1]
    /\ peer_tx_enabled = [n \in Nodes |-> TRUE]
    /\ cab_orders_file = [n \in Nodes |-> NoCab]
    /\ HwInit({}, [n \in Nodes |-> 0])
    /\ env = [NoBudget EXCEPT !.presses_at = [n \in Nodes |-> MaxPresses],
                              !.peer_updates = PeerUpdateBudget,
                              !.drops = MaxDrops]
    /\ call = [pc |-> "none"]

ClusterNext ==
    \E n \in Nodes :
        \/ CoordNewPackage(n)
        \/ CoordNewPeerUpdate(n)
        \/ CoordRequestReceived(n)
        \/ CoordNewElevatorState(n)
        \/ CoordOrderComplete(n)
        \/ DataTx(n)
        \/ PeerRx(n)
        \/ FsmHallRequests(n)
        \/ \E floor \in Floors : FsmServe(n, floor)
        \/ \E b \in ClusterButtons[n] : EnvButton(n, b[1], b[2])

SpecCluster == ClusterInit /\ [][ClusterNext]_vars

\* some message queued in channel ch of node n satisfies P
InChannel(ch, n, P(_)) == \E i \in DOMAIN ch[n] : P(ch[n][i])

(***************************************************************************)
(* Specification SpecCrash: one node whose process is killed and started   *)
(* again.  The cabin does not move and no cab call is served, so every cab *)
(* call the Coordinator has taken is still to be served when the process   *)
(* is killed.                                                              *)
(***************************************************************************)
\* the cab calls the Coordinator of node n has taken from a button edge: the flag it
\* has set in its own state, or the floor it has forwarded and the FSM has not read yet
CabCallsTaken(n) ==
    {f \in Floors :
        \/ n \in DOMAIN elevator_data[n].states /\ elevator_data[n].states[n].cab_requests[f]
        \/ InChannel(fsm_cab_request, n, LAMBDA floor : floor = f)}

\* the process of node n is killed and started again: every thread and channel of the
\* process is gone and main builds them anew; cab_orders.toml and the hardware stay
KillAndRestart(n) ==
    /\ coord_status[n] = "running"
    /\ env.kills > 0
    /\ env' = [env EXCEPT !.kills = @ - 1, !.owed[n] = CabCallsTaken(n)]
    /\ elevator_data' = [elevator_data EXCEPT ![n] = NewElevatorData(n)]
    /\ net_data_recv' = [net_data_recv EXCEPT ![n] = <<>>]
    /\ net_peer_update' = [net_peer_update EXCEPT ![n] = <<>>]
    /\ hw_request' = [hw_request EXCEPT ![n] = <<>>]
    /\ hw_button_light' = [hw_button_light EXCEPT ![n] = <<>>]
    /\ net_data_send' = [net_data_send EXCEPT ![n] = <<>>]
    /\ fsm_state' = [fsm_state EXCEPT ![n] = <<>>]
    /\ fsm_order_complete' = [fsm_order_complete EXCEPT ![n] = <<>>]
    /\ fsm_hall_requests' = [fsm_hall_requests EXCEPT ![n] = <<>>]
    /\ fsm_cab_request' = [fsm_cab_request EXCEPT ![n] = <<>>]
    /\ fsm' = [fsm EXCEPT ![n] = NewFsm]
    /\ fsm_status' = [fsm_status EXCEPT ![n] = "init"]
    /\ hw_floor_sensor' = [hw_floor_sensor EXCEPT ![n] = <<>>]
    /\ hw_obstruction' = [hw_obstruction EXCEPT ![n] = <<>>]
    /\ hw_stop_button' = [hw_stop_button EXCEPT ![n] = <<>>]
    /\ fsm_terminate' = [fsm_terminate EXCEPT ![n] = <<>>]
    /\ hw_motor_direction' = [hw_motor_direction EXCEPT ![n] = <<>>]
    /\ hw_door_light' = [hw_door_light EXCEPT ![n] = <<>>]
    /\ hw_floor_indicator' = [hw_floor_indicator EXCEPT ![n] = -1]
    /\ peer_tx_enabled' = [peer_tx_enabled EXCEPT ![n] = TRUE]
    /\ driver' = [driver EXCEPT ![n].d = NewDriver(hw[n].obstruction)]
    /\ hw' = [hw EXCEPT ![n].lamps = NoLamps]
    /\ UNCHANGED <<coord_status, cab_orders_file, call>>

CrashNode == "E1"

CrashInit ==
    /\ CoordInit({CrashNode})
    /\ FsmInit({CrashNode}, [n \in Nodes |-> NoCab])
    /\ HwInit({CrashNode}, [n \in Nodes |-> 0])
    /\ env = [NoBudget EXCEPT !.kills = MaxKills, !.presses_at[CrashNode] = MaxCabPresses]
    /\ call = [pc |-> "none"]

CrashNext ==
    \/ \E floor \in Floors : DriverPollButton(CrashNode, floor, CAB)
    \/ DriverButtonLight(CrashNode)
    \/ DriverMotorDirection(CrashNode)
    \/ CoordRequestReceived(CrashNode)
    \/ CoordNewElevatorState(CrashNode)
    \/ CoordNewPackage(CrashNode)
    \/ DataTx(CrashNode)
    \/ FsmStart(CrashNode)
    \/ FsmCabRequest(CrashNode)
    \/ FsmHallRequests(CrashNode)
    \/ KillAndRestart(CrashNode)

SpecCrash == CrashInit /\ [][CrashNext]_vars

(***************************************************************************)
(* Specification SpecPanel: one node with its driver; the driver polls     *)
(* every call button of every floor.  The cabin does not move.             *)
(***************************************************************************)
PanelNode == "E1"

PanelInit ==
    /\ CoordInit({PanelNode})
    /\ FsmInit({PanelNode}, [n \in Nodes |-> NoCab])
    /\ HwInit({PanelNode}, [n \in Nodes |-> 0])
    /\ env = [NoBudget EXCEPT !.presses_at[PanelNode] = MaxPanelPresses]
    /\ call = [pc |-> "none"]

PanelNext ==
    \/ \E floor \in Floors, kind \in {HALL_UP, HALL_DOWN, CAB} :
          DriverPollButton(PanelNode, floor, kind)
    \/ DriverButtonLight(PanelNode)
    \/ DriverMotorDirection(PanelNode)
    \/ CoordRequestReceived(PanelNode)
    \/ CoordNewElevatorState(PanelNode)
    \/ CoordNewPackage(PanelNode)
    \/ DataTx(PanelNode)
    \/ FsmStart(PanelNode)
    \/ FsmCabRequest(PanelNode)
    \/ FsmHallRequests(PanelNode)

SpecPanel == PanelInit /\ [][PanelNext]_vars

(***************************************************************************)
(* Specification SpecPackage: the NewPackage handler of one Coordinator on *)
(* bounded inputs.  The environment holds the other ends of the channels:  *)
(* it delivers a snapshot, lets the Coordinator handle it, notes what the  *)
(* Coordinator holds and has sent, and delivers the next snapshot.  In     *)
(* mode "twice" the same snapshot is delivered twice; in mode "merge" two  *)
(* snapshots are delivered and both are classified Merge.                  *)
(***************************************************************************)
PkgNode == "E1"

\* the state a Coordinator holds for itself and the one a peer reports for it
PkgMoving == [NewElevatorState EXCEPT !.behaviour = "Moving", !.floor = 1, !.direction = "Up"]

PkgHalls ==
    { m \in HallMatrices :
        \A f \in Floors, k \in HallKinds :
            m[f][k] => <<f, k>> \in {<<1, HALL_UP>>, <<NFloors - 1, HALL_DOWN>>} }

\* states maps that hold the id of PkgNode (a snapshot is sent to the keys of its states)
PkgStates(own) ==
    { [id \in {PkgNode} \cup others |-> IF id = PkgNode THEN own ELSE peer] :
        others \in {{}, {"E2"}, {"E3"}}, peer \in {NewElevatorState, PkgMoving} }

PkgLocals(versions) ==
    { [version |-> v, hall_requests |-> h, states |-> st] :
        v \in versions, h \in PkgHalls, st \in PkgStates(NewElevatorState) }

PkgSnapshots(versions) ==
    { [version |-> v, hall_requests |-> h, states |-> st] :
        v \in versions, h \in PkgHalls, st \in PkgStates(PkgMoving) }

PkgInit ==
    /\ \E mode \in {"twice", "merge"} :
          \E l \in PkgLocals(IF mode = "twice" THEN 1..2 ELSE {1}),
             a \in PkgSnapshots(IF mode = "twice" THEN 1..2 ELSE {2}),
             b \in PkgSnapshots({2}) :
                /\ mode = "twice" => b = a
                /\ elevator_data = [n \in Nodes |-> IF n = PkgNode THEN l
                                                    ELSE NewElevatorData(n)]
                /\ net_data_recv = [n \in Nodes |-> IF n = PkgNode THEN <<a>> ELSE <<>>]
                /\ call = [pc |-> mode, local |-> l, a |-> a, b |-> b, seen |-> <<>>]
    /\ coord_status = [n \in Nodes |-> IF n = PkgNode THEN "running" ELSE "off"]
    /\ net_peer_update = [n \in Nodes |-> <<>>]
    /\ hw_request = [n \in Nodes |-> <<>>]
    /\ fsm_state = [n \in Nodes |-> <<>>]
    /\ fsm_order_complete = [n \in Nodes |-> <<>>]
    /\ hw_button_light = [n \in Nodes |-> <<>>]
    /\ fsm_hall_requests = [n \in Nodes |-> <<>>]
    /\ fsm_cab_request = [n \in Nodes |-> <<>>]
    /\ net_data_send = [n \in Nodes |-> <<>>]
    /\ FsmInit({}, [n \in Nodes |-> NoCab])
    /\ HwInit({}, [n \in Nodes |-> 0])
    /\ env = NoBudget

\* the NewPackage handler when check_merge_type returns Merge
CoordNewPackageMerge(n) ==
    /\ CoordReady(n)
    /\ net_data_recv[n] # <<>>
    /\ net_data_recv' = Pop(net_data_recv, n)
    /\ LET incoming == Head(net_data_recv[n])
       IN  /\ \E last_key \in LastKeys(elevator_data[n]) :
                 check_merge_type(elevator_data[n], incoming, last_key) = "Merge"
           /\ CoordApply(n, merge_package(n, incoming))
    /\ UNCHANGED <<net_peer_update, hw_request, fsm_state, fsm_order_complete>>
    /\ UNCHANGED <<fsmVars, hwVars, env, call>>

\* the environment notes what the Coordinator holds and what it has sent while handling
\* the snapshot, empties the channels, and delivers the second snapshot after the first
PkgObserve ==
    /\ net_data_recv[PkgNode] = <<>>
    /\ Len(call.seen) < 2
    /\ call' = [call EXCEPT !.seen = Append(@,
                   [data |-> elevator_data[PkgNode],
                    lamps |-> hw_button_light[PkgNode],
                    to_fsm |-> fsm_hall_requests[PkgNode],
                    to_net |-> net_data_send[PkgNode]])]
    /\ net_data_recv' = [net_data_recv EXCEPT
                            ![PkgNode] = IF call.seen = <<>> THEN <<call.b>> ELSE <<>>]
    /\ fsm_hall_requests' = [fsm_hall_requests EXCEPT ![PkgNode] = <<>>]
    /\ net_data_send' = [net_data_send EXCEPT ![PkgNode] = <<>>]
    /\ UNCHANGED <<elevator_data, coord_status, net_peer_update, hw_request, hw_button_light,
                   fsm_state, fsm_order_complete, fsm_cab_request>>
    /\ UNCHANGED <<fsmVars, hwVars, env>>

PkgHandle == call.pc = "twice" /\ CoordNewPackage(PkgNode)

PkgHandleMerge == call.pc = "merge" /\ CoordNewPackageMerge(PkgNode)

PkgNext ==
    \/ PkgHandle
    \/ PkgHandleMerge
    \/ PkgObserve

SpecPackage == PkgInit /\ [][PkgNext]_vars

(***************************************************************************)
(* Specification SpecOffline: one node whose local-IP probe fails on every *)
(* attempt.  Network::new then returns Network { id: "Offline Elevator" }  *)
(* before it spawns a thread, and the channel ends main moved into it      *)
(* (net_data_send_rx, net_data_recv_tx, net_peer_update_tx,                *)
(* net_peer_tx_enable_rx) are dropped on return.  main goes on and starts  *)
(* the FSM and the Coordinator with the other ends.  The node OfflineNode  *)
(* stands for the id "Offline Elevator".  The FSM has run its start-up and *)
(* the driver has taken the start-up motor command; the environment stands *)
(* for the driver from then on and presses buttons.                        *)
(***************************************************************************)
OfflineNode == "E1"

Offline(n) == n \in env.offline

OfflineButtons == Floors \X {HALL_UP, HALL_DOWN, CAB}

OfflineInit ==
    /\ elevator_data = [n \in Nodes |-> NewElevatorData(n)]
    /\ coord_status = [n \in Nodes |-> IF n = OfflineNode THEN "running" ELSE "off"]
    /\ net_data_recv = [n \in Nodes |-> <<>>]
    /\ net_peer_update = [n \in Nodes |-> <<>>]
    /\ hw_request = [n \in Nodes |-> <<>>]
    /\ fsm_state = [n \in Nodes |-> IF n = OfflineNode THEN <<NewElevatorState>> ELSE <<>>]
    /\ fsm_order_complete = [n \in Nodes |-> <<>>]
    /\ hw_button_light = [n \in Nodes |-> <<>>]
    /\ fsm_hall_requests = [n \in Nodes |-> <<>>]
    /\ fsm_cab_request = [n \in Nodes |-> <<>>]
    /\ net_data_send = [n \in Nodes |-> <<>>]
    /\ fsm = [n \in Nodes |-> NewFsm]
    /\ fsm_status = [n \in Nodes |-> IF n = OfflineNode THEN "running" ELSE "off"]
    /\ hw_floor_sensor = [n \in Nodes |-> <<>>]
    /\ hw_obstruction = [n \in Nodes |-> <<>>]
    /\ hw_stop_button = [n \in Nodes |-> <<>>]
    /\ fsm_terminate = [n \in Nodes |-> <<>>]
    /\ hw_motor_direction = [n \in Nodes |-> <<>>]
    /\ hw_door_light = [n \in Nodes |-> <<>>]
    /\ hw_floor_indicator = [n \in Nodes |-> -1]
    /\ peer_tx_enabled = [n \in Nodes |-> TRUE]
    /\ cab_orders_file = [n \in Nodes |-> NoCab]
    /\ HwInit({}, [n \in Nodes |-> 0])
    /\ env = [NoBudget EXCEPT !.presses_at[OfflineNode] = MaxOfflinePresses,
                              !.offline = {OfflineNode}]
    /\ call = [pc |-> "none"]

\* std::process::exit: every thread of the process ends
ProcessExit(n) ==
    /\ coord_status' = [coord_status EXCEPT ![n] = "exited"]
    /\ fsm_status' = [fsm_status EXCEPT ![n] = "exited"]
    /\ driver' = [driver EXCEPT ![n].status = IF @ = "running" THEN "exited" ELSE @]

\* select! of Coordinator::run takes recv(net_data_recv_rx) or recv(net_peer_update_rx):
\* the senders are dropped, so the operation is ready at once with Err, and the arm
\* calls std::process::exit(1)
CoordDisconnected(n) ==
    /\ coord_status[n] = "running"
    /\ Offline(n)
    /\ ProcessExit(n)
    /\ UNCHANGED <<elevator_data, net_data_recv, net_peer_update, hw_request,
                   hw_button_light, net_data_send, hw>>
    /\ UNCHANGED <<fsm, hw_floor_sensor, hw_obstruction, hw_stop_button, fsm_terminate,
                   hw_motor_direction, hw_door_light, hw_floor_indicator, peer_tx_enabled,
                   cab_orders_file>>
    /\ UNCHANGED <<linkVars, env, call>>

\* the Coordinator handles an event that sends an assignment to the FSM and nothing on
\* fsm_cab_request
CoordSendsToFsm(n) ==
    /\ coord_status[n] = "running"
    /\ ~FsmGone(n)
    /\ Room(fsm_hall_requests, n)

\* hall_request_assigner(true) with net_data_send_rx dropped: the matrix is sent to the
\* FSM, version is bumped, net_data_send_tx.send returns Err and expect panics; lamps
\* are the lamp commands the handler has sent before the call
CoordSendFails(n, hra, lamps) ==
    /\ elevator_data' = [elevator_data EXCEPT ![n] = hra.data]
    /\ hw_button_light' = SendToDriver(hw_button_light, n, lamps)
    /\ fsm_hall_requests' = Push(fsm_hall_requests, n, hra.to_fsm)
    /\ coord_status' = [coord_status EXCEPT ![n] = "panicked"]
    /\ UNCHANGED <<fsm_cab_request, net_data_send>>

\* recv(hw_request_rx) at an offline node: a cab call needs no send to the network; a
\* hall call runs hall_request_assigner(true) before update_light
CoordRequestReceivedOffline(n) ==
    /\ Offline(n)
    /\ hw_request[n] # <<>>
    /\ IF Head(hw_request[n])[2] = CAB
       THEN CoordRequestReceived(n)
       ELSE /\ CoordSendsToFsm(n)
            /\ elevator_data[n].version < MaxVersion
            /\ hw_request' = Pop(hw_request, n)
            /\ LET request == Head(hw_request[n])
                   data1 == [elevator_data[n] EXCEPT
                                !.hall_requests[request[1]][request[2]] = TRUE]
               IN  \E share \in Shares(data1, n) :
                      CoordSendFails(n, hall_request_assigner(data1, TRUE, share), <<>>)
            /\ UNCHANGED <<net_data_recv, net_peer_update, fsm_state, fsm_order_complete>>
            /\ UNCHANGED <<fsmVars, hwVars, env, call>>

\* recv(fsm_state_rx) at an offline node
CoordNewElevatorStateOffline(n) ==
    /\ Offline(n)
    /\ CoordSendsToFsm(n)
    /\ elevator_data[n].version < MaxVersion
    /\ fsm_state[n] # <<>>
    /\ fsm_state' = Pop(fsm_state, n)
    /\ LET elevator_state == Head(fsm_state[n])
           local == elevator_data[n]
           data1 == [local EXCEPT !.states[n] = elevator_state]
       IN  \E share \in Shares(data1, n) :
              CoordSendFails(n, hall_request_assigner(data1, TRUE, share),
                             CabLampsOn(local.states[n].cab_requests,
                                        elevator_state.cab_requests, 0))
    /\ UNCHANGED <<net_data_recv, net_peer_update, hw_request, fsm_order_complete>>
    /\ UNCHANGED <<fsmVars, hwVars, env, call>>

\* The FSM sends its state with every order it completes, and the Coordinator ends with
\* the first state message it handles, so no completion is handled at an offline node
\* within the queue bound.
OfflineNext ==
    \/ \E b \in OfflineButtons : EnvButton(OfflineNode, b[1], b[2])
    \/ CoordDisconnected(OfflineNode)
    \/ CoordRequestReceivedOffline(OfflineNode)
    \/ CoordNewElevatorStateOffline(OfflineNode)
    \/ FsmHallRequests(OfflineNode)
    \/ FsmCabRequest(OfflineNode)
    \/ \E floor \in Floors : FsmServe(OfflineNode, floor)

SpecOffline == OfflineInit /\ [][OfflineNext]_vars

(***************************************************************************)
(* Specification SpecOrders: complete_orders and choose_direction on       *)
(* bounded inputs: every floor, direction and behaviour, and every set of  *)
(* at most MaxOrders pending orders (cab, hall-up or hall-down per floor). *)
(***************************************************************************)
OrderCount(cab, hall) ==
    Cardinality({ f \in Floors : cab[f] })
        + Cardinality({ b \in Floors \X HallKinds : hall[b[1]][b[2]] })

OrdersInit ==
    /\ CoordInit({})
    /\ FsmInit({}, [n \in Nodes |-> NoCab])
    /\ HwInit({}, [n \in Nodes |-> 0])
    /\ env = NoBudget
    /\ \E floor \in Floors, direction \in Directions, behaviour \in Behaviours,
          cab \in CabVectors, hall \in HallMatrices :
          /\ OrderCount(cab, hall) <= MaxOrders
          /\ call = [pc |-> "ready",
                     st |-> [behaviour |-> behaviour, floor |-> floor,
                             direction |-> direction, cab_requests |-> cab],
                     hall |-> hall,
                     co |-> complete_orders(NewElevatorState, NoHall),
                     dir |-> "none"]

CallCompleteOrders ==
    /\ call.pc = "ready"
    /\ call' = [call EXCEPT !.pc = "completed", !.co = complete_orders(call.st, call.hall)]
    /\ UNCHANGED <<coordVars, linkVars, fsmVars, hwVars, env>>

CallChooseDirection ==
    /\ call.pc = "ready"
    /\ call' = [call EXCEPT !.pc = "chosen", !.dir = choose_direction(call.st, call.hall)]
    /\ UNCHANGED <<coordVars, linkVars, fsmVars, hwVars, env>>

OrdersNext == CallCompleteOrders \/ CallChooseDirection

SpecOrders == OrdersInit /\ [][OrdersNext]_vars

(***************************************************************************)
(* Specification SpecDriver: the driver thread of node E1 and its panel.   *)
(* The environment stands in for the Coordinator: it takes the request     *)
(* events and sends lamp commands.                                         *)
(***************************************************************************)
DriverNode == "E1"

Buttons == Floors \X {HALL_UP, HALL_DOWN, CAB}

DriverInit ==
    /\ CoordInit({})
    /\ FsmInit({}, [n \in Nodes |-> NoCab])
    /\ HwInit({DriverNode}, [n \in Nodes |-> 0])
    /\ env = [NoBudget EXCEPT !.presses_at[DriverNode] = MaxDriverPresses,
                              !.lamp_msgs = MaxLampMsgs]
    /\ call = [pc |-> "none"]

\* the Coordinator's end of hw_request: a request event is taken
EnvTakeRequest(n) ==
    /\ NoCoord(n)
    /\ hw_request[n] # <<>>
    /\ hw_request' = Pop(hw_request, n)
    /\ UNCHANGED <<elevator_data, coord_status, net_data_recv, net_peer_update,
                   hw_button_light, net_data_send>>
    /\ UNCHANGED <<linkVars, fsmVars, hwVars, env, call>>

\* the Coordinator's end of hw_button_light: a lamp command is sent
EnvLampCommand(n, floor, kind, value) ==
    /\ NoCoord(n)
    /\ env.lamp_msgs > 0
    /\ Room(hw_button_light, n)
    /\ env' = [env EXCEPT !.lamp_msgs = @ - 1]
    /\ hw_button_light' = Push(hw_button_light, n, << <<floor, kind, value>> >>)
    /\ UNCHANGED <<elevator_data, coord_status, net_data_recv, net_peer_update,
                   hw_request, net_data_send>>
    /\ UNCHANGED <<linkVars, fsmVars, hwVars, call>>

DriverNext ==
    \/ \E b \in Buttons : DriverPollButton(DriverNode, b[1], b[2])
    \/ DriverButtonLight(DriverNode)
    \/ EnvTakeRequest(DriverNode)
    \/ \E b \in Buttons, value \in BOOLEAN : EnvLampCommand(DriverNode, b[1], b[2], value)

SpecDriver == DriverInit /\ [][DriverNext]_vars

(***************************************************************************)
(* Specification SpecNet: the data_tx thread of node E1 (send_ack), the    *)
(* data_rx threads of both nodes (recv_ack) and the UDP sockets between    *)
(* them.  `call` holds the running send_ack call (data, peer_addresses,    *)
(* retries, its socket and the port the socket is bound to) and the        *)
(* msg_port socket of every node.  The environment stands in for the       *)
(* Coordinator of E1: it hands snapshots to data_tx.  env.sends, env.acked *)
(* and env.published record what went over the network for each (version,  *)
(* peer).                                                                  *)
(***************************************************************************)
NetNode == "E1"

NetKeys == (1..MaxSnapshots) \X Nodes

\* serde_json::to_string(&data) and serde_json::from_str::<ElevatorData>
to_string(data) == <<"json", data.version, data.hall_requests, data.states>>

IsElevatorData(message) == Len(message) = 4 /\ message[1] = "json"

from_str(message) ==
    [version |-> message[2], hall_requests |-> message[3], states |-> message[4]]

\* the orders in which a HashMap may iterate over its keys
KeyOrders(keys) ==
    { order \in [1..Cardinality(keys) -> keys] :
        \A i, j \in 1..Cardinality(keys) : i # j => order[i] # order[j] }

NetInit ==
    /\ CoordInit({})
    /\ FsmInit({}, [n \in Nodes |-> NoCab])
    /\ HwInit({}, [n \in Nodes |-> 0])
    /\ env = [NoBudget EXCEPT !.snapshots = MaxSnapshots, !.drops = MaxNetDrops,
                              !.garbage = MaxGarbage, !.foreign = MaxForeign,
                              !.sends = [vp \in NetKeys |-> 0],
                              !.published = [vp \in NetKeys |-> 0]]
    /\ call = [pc |-> "recv", data |-> NewElevatorData(NetNode), peer_addresses |-> <<>>,
               retries |-> 0, socket |-> <<>>, port |-> 0,
               msg_socket |-> [k \in Nodes |-> <<>>]]

\* the Coordinator's end of net_data_send: snapshot number v is handed to data_tx
EnvSnapshot(n) ==
    /\ NoCoord(n)
    /\ env.snapshots > 0
    /\ Room(net_data_send, n)
    /\ \E keys \in (SUBSET Nodes) \ {{}} :
         net_data_send' = Push(net_data_send, n,
             << [version |-> MaxSnapshots - env.snapshots + 1, hall_requests |-> NoHall,
                 states |-> [k \in keys |-> NewElevatorState]] >>)
    /\ env' = [env EXCEPT !.snapshots = @ - 1]
    /\ UNCHANGED <<elevator_data, coord_status, net_data_recv, net_peer_update, hw_request,
                   hw_button_light>>
    /\ UNCHANGED <<linkVars, fsmVars, hwVars, call>>

NetUnchanged ==
    /\ UNCHANGED <<elevator_data, coord_status, net_peer_update, hw_request, hw_button_light>>
    /\ UNCHANGED <<linkVars, fsmVars, hwVars>>

\* send_ack leaves the loop of the current peer: the next peer, or return (socket dropped)
next_peer(c) ==
    IF Len(c.peer_addresses) <= 1
    THEN [c EXCEPT !.pc = "recv", !.data = NewElevatorData(NetNode),
                   !.peer_addresses = <<>>, !.retries = 0, !.socket = <<>>]
    ELSE [c EXCEPT !.pc = "send_to", !.peer_addresses = Tail(@), !.retries = 0]

\* retries += 1, then the test of `while retries < max_retries`
retry(c) ==
    IF c.retries + 1 < max_retries
    THEN [c EXCEPT !.pc = "send_to", !.retries = @ + 1]
    ELSE next_peer(c)

\* data_tx: net_data_send_rx.recv() returns a snapshot and send_ack starts: a new
\* socket on a fresh port, the keys of data.states in the order of the HashMap
DataTxRecv(n) ==
    /\ call.pc = "recv"
    /\ net_data_send[n] # <<>>
    /\ LET data == Head(net_data_send[n])
       IN  \E order \in KeyOrders(DOMAIN data.states) :
             call' = [call EXCEPT !.pc = IF max_retries > 0 THEN "send_to" ELSE "recv",
                                  !.data = data,
                                  !.peer_addresses =
                                      IF max_retries > 0 THEN order ELSE <<>>,
                                  !.retries = 0, !.socket = <<>>, !.port = @ + 1]
    /\ net_data_send' = Pop(net_data_send, n)
    /\ UNCHANGED <<net_data_recv, env>>
    /\ NetUnchanged

\* send_ack: socket.send_to(&serialized_data, &peer_address).  The datagram arrives at
\* the msg_port socket of the peer, is lost on the way, or send_to returns Err.
SendTo(n) ==
    /\ call.pc = "send_to"
    /\ LET peer == Head(call.peer_addresses)
           vp == <<call.data.version, peer>>
           datagram == << <<n, call.port>>, to_string(call.data) >>
       IN  \/ /\ Len(call.msg_socket[peer]) < MaxSocket
              /\ call' = [call EXCEPT !.pc = "recv_from",
                                      !.msg_socket[peer] = Append(@, datagram)]
              /\ env' = [env EXCEPT !.sends[vp] = @ + 1]
           \/ /\ env.drops > 0
              /\ call' = [call EXCEPT !.pc = "recv_from"]
              /\ env' = [env EXCEPT !.sends[vp] = @ + 1, !.drops = @ - 1]
           \/ /\ env.drops > 0
              /\ call' = retry(call)
              /\ env' = [env EXCEPT !.sends[vp] = @ + 1, !.drops = @ - 1]
    /\ UNCHANGED <<net_data_recv, net_data_send>>
    /\ NetUnchanged

\* AckRecvFrom that counts an "ACK" datagram from any address
AckRecvFrom_mut(n) ==
    /\ call.pc = "recv_from"
    /\ call.socket # <<>>
    /\ LET peer == Head(call.peer_addresses)
           src_addr == Head(call.socket)[1]
           msg == Head(call.socket)[2]
           taken == [call EXCEPT !.socket = Tail(@)]
       IN  IF msg = "ACK"
           THEN /\ call' = next_peer(taken)
                /\ env' = [env EXCEPT !.acked = @ \cup {<<call.data.version, peer>>}]
           ELSE /\ call' = taken
                /\ UNCHANGED env
    /\ UNCHANGED <<net_data_recv, net_data_send>>
    /\ NetUnchanged

\* send_ack: socket.recv_from returns a datagram within ack_timeout
AckRecvFrom(n) ==
    /\ call.pc = "recv_from"
    /\ call.socket # <<>>
    /\ LET peer == Head(call.peer_addresses)
           src_addr == Head(call.socket)[1]
           msg == Head(call.socket)[2]
           taken == [call EXCEPT !.socket = Tail(@)]
       IN  IF src_addr = peer /\ msg = "ACK"
           THEN /\ call' = next_peer(taken)
                /\ env' = [env EXCEPT !.acked = @ \cup {<<call.data.version, peer>>}]
           ELSE /\ call' = taken
                /\ UNCHANGED env
    /\ UNCHANGED <<net_data_recv, net_data_send>>
    /\ NetUnchanged

\* send_ack: start.elapsed() reaches ack_timeout without an ACK
AckTimeout(n) ==
    /\ call.pc = "recv_from"
    /\ call' = retry(call)
    /\ UNCHANGED <<net_data_recv, net_data_send, env>>
    /\ NetUnchanged

\* the datagram b"ACK" sent by node k to src_addr: it arrives at the socket of the
\* send_ack call that is bound to that port, or is lost
AckArrives(c, k, src_addr) ==
    IF c.pc # "recv" /\ src_addr = <<NetNode, c.port>> /\ Len(c.socket) < MaxSocket
    THEN {[c EXCEPT !.socket = Append(@, <<k, "ACK">>)], c}
    ELSE {c}

\* DataRx that sends the ACK and publishes nothing
DataRx_mut(k) ==
    /\ call.msg_socket[k] # <<>>
    /\ LET src_addr == Head(call.msg_socket[k])[1]
           message == Head(call.msg_socket[k])[2]
           taken == [call EXCEPT !.msg_socket[k] = Tail(@)]
       IN  IF IsElevatorData(message)
           THEN /\ NoCoord(k) \/ Room(net_data_recv, k)
                /\ call' \in AckArrives(taken, k, src_addr)
                /\ UNCHANGED net_data_recv
                /\ UNCHANGED env
           ELSE /\ call' = taken
                /\ UNCHANGED <<net_data_recv, env>>
    /\ UNCHANGED net_data_send
    /\ NetUnchanged

\* data_rx of node k: recv_ack takes one datagram from the msg_port socket; if it
\* deserializes, "ACK" is sent to src_addr and the snapshot is published
DataRx(k) ==
    /\ call.msg_socket[k] # <<>>
    /\ LET src_addr == Head(call.msg_socket[k])[1]
           message == Head(call.msg_socket[k])[2]
           taken == [call EXCEPT !.msg_socket[k] = Tail(@)]
       IN  IF IsElevatorData(message)
           THEN /\ NoCoord(k) \/ Room(net_data_recv, k)
                /\ call' \in AckArrives(taken, k, src_addr)
                /\ net_data_recv' = SendToCoord(net_data_recv, k, << from_str(message) >>)
                /\ env' = [env EXCEPT !.published[<<message[2], k>>] = @ + 1]
           ELSE /\ call' = taken
                /\ UNCHANGED <<net_data_recv, env>>
    /\ UNCHANGED net_data_send
    /\ NetUnchanged

\* a datagram that is no ElevatorData arrives at the msg_port socket of node k
EnvGarbage(k) ==
    /\ env.garbage > 0
    /\ Len(call.msg_socket[k]) < MaxSocket
    /\ call' = [call EXCEPT !.msg_socket[k] = Append(@, << <<"X", 0>>, <<"garbage">> >>)]
    /\ env' = [env EXCEPT !.garbage = @ - 1]
    /\ UNCHANGED <<net_data_recv, net_data_send>>
    /\ NetUnchanged

\* a datagram that is no ACK of the peer arrives at the socket of send_ack: "ACK" from
\* another address, or other content from the address of a peer
EnvForeign(n) ==
    /\ env.foreign > 0
    /\ call.pc # "recv"
    /\ Len(call.socket) < MaxSocket
    /\ \E datagram \in {<<"X", "ACK">>} \cup {<<k, "NAK">> : k \in Nodes} :
         call' = [call EXCEPT !.socket = Append(@, datagram)]
    /\ env' = [env EXCEPT !.foreign = @ - 1]
    /\ UNCHANGED <<net_data_recv, net_data_send>>
    /\ NetUnchanged

NetNext ==
    \/ EnvSnapshot(NetNode)
    \/ DataTxRecv(NetNode)
    \/ SendTo(NetNode)
    \/ AckRecvFrom(NetNode)
    \/ AckTimeout(NetNode)
    \/ \E k \in Nodes : DataRx(k)
    \/ \E k \in Nodes : EnvGarbage(k)
    \/ EnvForeign(NetNode)

SpecNet == NetInit /\ [][NetNext]_vars

\* the threads run: data_tx goes on inside send_ack (its timeouts elapse), the data_rx
\* threads take the datagrams of their sockets
SpecNetFair ==
    /\ SpecNet
    /\ WF_vars(SendTo(NetNode))
    /\ WF_vars(AckTimeout(NetNode))
    /\ \A k \in Nodes : WF_vars(DataRx(k))

(***************************************************************************)
(* Specification SpecStop: node E1 with its Coordinator, FSM and driver,   *)
(* and the three terminate channels.  main keeps the senders               *)
(* _fsm_terminate_tx, _coordinator_terminate_tx and _hw_terminate_tx and   *)
(* never sends on them, so a terminate message comes from the environment; *)
(* the channels of the Coordinator and of the driver are kept in           *)
(* env.coordinator_terminate and env.hw_terminate.                         *)
(***************************************************************************)
StopNode == "E1"

Workers == {"fsm", "coordinator", "hw"}

StopInit ==
    /\ CoordInit({StopNode})
    /\ FsmInit({StopNode}, [n \in Nodes |-> NoCab])
    /\ HwInit({StopNode}, [n \in Nodes |-> 0])
    /\ env = [NoBudget EXCEPT !.presses_at[StopNode] = MaxStopPresses,
                              !.terminations = MaxTerminations]
    /\ call = [pc |-> "none"]

\* a message is placed on the terminate channel of one worker
EnvTerminate(n, worker) ==
    /\ env.terminations > 0
    /\ \/ /\ worker = "fsm" /\ fsm_terminate[n] = <<>> /\ ~FsmGone(n)
          /\ fsm_terminate' = Push(fsm_terminate, n, << <<>> >>)
          /\ env' = [env EXCEPT !.terminations = @ - 1]
       \/ /\ worker = "coordinator" /\ env.coordinator_terminate[n] = <<>> /\ ~CoordGone(n)
          /\ env' = [env EXCEPT !.terminations = @ - 1,
                                !.coordinator_terminate[n] = Append(@, <<>>)]
          /\ UNCHANGED fsm_terminate
       \/ /\ worker = "hw" /\ env.hw_terminate[n] = <<>> /\ ~DriverGone(n)
          /\ env' = [env EXCEPT !.terminations = @ - 1,
                                !.hw_terminate[n] = Append(@, <<>>)]
          /\ UNCHANGED fsm_terminate
    /\ UNCHANGED <<fsm, fsm_status, hw_floor_sensor, hw_obstruction, hw_stop_button,
                   hw_motor_direction, hw_door_light, hw_floor_indicator, peer_tx_enabled,
                   cab_orders_file>>
    /\ UNCHANGED <<coordVars, linkVars, hwVars, call>>

\* recv(self.coordinator_terminate_rx) -> _ => break
CoordTerminate(n) ==
    /\ coord_status[n] = "running"
    /\ env.coordinator_terminate[n] # <<>>
    /\ env' = [env EXCEPT !.coordinator_terminate[n] = Tail(@)]
    /\ coord_status' = [coord_status EXCEPT ![n] = "terminated"]
    /\ UNCHANGED <<elevator_data, net_data_recv, net_peer_update, hw_request,
                   hw_button_light, net_data_send>>
    /\ UNCHANGED <<linkVars, fsmVars, hwVars, call>>

\* recv(self.terminate_rx) -> _ => break
DriverTerminate(n) ==
    /\ DriverRunning(n)
    /\ env.hw_terminate[n] # <<>>
    /\ env' = [env EXCEPT !.hw_terminate[n] = Tail(@)]
    /\ driver' = [driver EXCEPT ![n].status = "terminated"]
    /\ UNCHANGED <<hw, coordVars, linkVars, fsmVars, call>>

StopNext ==
    \/ \E worker \in Workers : EnvTerminate(StopNode, worker)
    \/ FsmTerminate(StopNode)
    \/ CoordTerminate(StopNode)
    \/ DriverTerminate(StopNode)
    \/ \E floor \in Floors, kind \in {HALL_UP, HALL_DOWN, CAB} :
          DriverPollButton(StopNode, floor, kind)
    \/ DriverButtonLight(StopNode)
    \/ DriverMotorDirection(StopNode)
    \/ CoordRequestReceived(StopNode)
    \/ CoordNewElevatorState(StopNode)
    \/ CoordNewPackage(StopNode)
    \/ DataTx(StopNode)
    \/ FsmStart(StopNode)
    \/ FsmCabRequest(StopNode)
    \/ FsmHallRequests(StopNode)

SpecStop == StopInit /\ [][StopNext]_vars

\* select! is fair among the ready channels: a terminate message that waits is received
SpecStopFair ==
    /\ SpecStop
    /\ WF_vars(FsmTerminate(StopNode))
    /\ WF_vars(CoordTerminate(StopNode))
    /\ WF_vars(DriverTerminate(StopNode))

(***************************************************************************)
(* Specification SpecService: one node with its Coordinator, FSM, driver   *)
(* and cabin.  After the start-up has come to rest at floor 0 the button   *)
(* (2, HALL_UP) is pressed once.  handle_floor_hit is taken in two steps   *)
(* when complete_orders returns true: the completion events are sent       *)
(* before the motor and door commands, and the Coordinator thread may run  *)
(* between them (fsm_status "floor_hit").                                  *)
(***************************************************************************)
ServiceNode == "E1"

ServiceCall == <<2, HALL_UP>>

ServiceInit ==
    /\ CoordInit({ServiceNode})
    /\ FsmInit({ServiceNode}, [n \in Nodes |-> NoCab])
    /\ HwInit({ServiceNode}, [n \in Nodes |-> 0])
    /\ env = [NoBudget EXCEPT !.presses_at[ServiceNode] = 1,
                              !.max_version = MaxServiceVersion,
                              !.max_queue = MaxServiceQueue]
    /\ call = [pc |-> "none"]

\* the start-up is over: the cabin stands at floor 0, the FSM is Idle and nothing is
\* on its way between the threads
StartedUp(n) ==
    /\ fsm_status[n] = "running"
    /\ fsm[n].state.behaviour = "Idle" /\ fsm[n].state.floor = 0
    /\ hw[n].pos = 0 /\ hw[n].motor = DIRN_STOP /\ driver[n].d.current_floor = 0
    /\ FsmIdleChannels(n)
    /\ hw_motor_direction[n] = <<>> /\ hw_door_light[n] = <<>> /\ hw_button_light[n] = <<>>
    /\ fsm_state[n] = <<>> /\ fsm_order_complete[n] = <<>> /\ hw_request[n] = <<>>
    /\ net_data_send[n] = <<>> /\ net_data_recv[n] = <<>>

ServicePress(n) ==
    /\ StartedUp(n)
    /\ DriverPollButton(n, ServiceCall[1], ServiceCall[2])

\* handle_floor_hit up to the return of complete_orders; the whole handler if no order
\* is completed
FloorHitCompleteOrders(n) ==
    /\ fsm_status[n] = "running"
    /\ hw_floor_sensor[n] # <<>>
    /\ FsmRoom(n)
    /\ hw_floor_sensor' = Pop(hw_floor_sensor, n)
    /\ LET floor == Head(hw_floor_sensor[n])
           out == handle_floor_hit(n, floor)
           co == complete_orders([fsm[n].state EXCEPT !.floor = floor],
                                 fsm[n].hall_requests)
       IN  IF co.orders_completed /\ ~CoordGone(n)
           THEN /\ fsm' = [fsm EXCEPT ![n].state = co.state,
                                      ![n].hall_requests = co.hall_requests,
                                      ![n].peer_enable = out.f.peer_enable]
                /\ fsm_status' = [fsm_status EXCEPT ![n] = "floor_hit"]
                /\ hw_floor_indicator' = [hw_floor_indicator EXCEPT ![n] = floor]
                /\ peer_tx_enabled' = [peer_tx_enabled EXCEPT ![n] = out.peer]
                /\ fsm_order_complete' = SendToCoord(fsm_order_complete, n, co.sent)
                /\ cab_orders_file' = [cab_orders_file EXCEPT ![n] = out.file]
                /\ UNCHANGED <<hw_motor_direction, hw_door_light, fsm_state>>
           ELSE FsmApply(n, out)
    /\ UNCHANGED <<hw_obstruction, hw_stop_button, fsm_terminate, fsm_hall_requests,
                   fsm_cab_request>>
    /\ UNCHANGED <<coordVars, hwVars, env, call>>

\* FloorHitOpenDoor that sends no motor Stop
FloorHitOpenDoor_mut(n) ==
    /\ fsm_status[n] = "floor_hit"
    /\ LET opened == [fsm[n].state EXCEPT !.behaviour = "DoorOpen"]
       IN  /\ fsm' = [fsm EXCEPT ![n].state = opened, ![n].door_timer = "running"]
           /\ fsm_state' = SendToCoord(fsm_state, n, <<opened, opened>>)
    /\ UNCHANGED hw_motor_direction
    /\ hw_door_light' = Push(hw_door_light, n, <<TRUE>>)
    /\ fsm_status' = [fsm_status EXCEPT ![n] = "running"]
    /\ UNCHANGED <<hw_floor_sensor, hw_obstruction, hw_stop_button, fsm_terminate,
                   hw_floor_indicator, peer_tx_enabled, cab_orders_file,
                   fsm_order_complete, fsm_hall_requests, fsm_cab_request>>
    /\ UNCHANGED <<coordVars, hwVars, env, call>>

\* handle_floor_hit after complete_orders returned true: motor Stop, open_door, publish
FloorHitOpenDoor(n) ==
    /\ fsm_status[n] = "floor_hit"
    /\ LET opened == [fsm[n].state EXCEPT !.behaviour = "DoorOpen"]
       IN  /\ fsm' = [fsm EXCEPT ![n].state = opened, ![n].door_timer = "running"]
           /\ fsm_state' = SendToCoord(fsm_state, n, <<opened, opened>>)
    /\ hw_motor_direction' = Push(hw_motor_direction, n, <<to_u8("Stop")>>)
    /\ hw_door_light' = Push(hw_door_light, n, <<TRUE>>)
    /\ fsm_status' = [fsm_status EXCEPT ![n] = "running"]
    /\ UNCHANGED <<hw_floor_sensor, hw_obstruction, hw_stop_button, fsm_terminate,
                   hw_floor_indicator, peer_tx_enabled, cab_orders_file,
                   fsm_order_complete, fsm_hall_requests, fsm_cab_request>>
    /\ UNCHANGED <<coordVars, hwVars, env, call>>

\* The cabin needs seconds from one floor to the next and the threads handle a message
\* within the polling period: the cabin moves on only when the floor edge it caused has
\* been handled by the FSM and the motor commands sent so far have reached the motor.
Travel(n) ==
    /\ hw_floor_sensor[n] = <<>>
    /\ hw_motor_direction[n] = <<>>
    /\ fsm_status[n] # "floor_hit"
    /\ Move(n)

ServiceNext ==
    \/ ServicePress(ServiceNode)
    \/ DriverButtonLight(ServiceNode)
    \/ DriverMotorDirection(ServiceNode)
    \/ DriverDoorLight(ServiceNode)
    \/ DriverPollFloor(ServiceNode)
    \/ Travel(ServiceNode)
    \/ CoordRequestReceived(ServiceNode)
    \/ CoordNewElevatorState(ServiceNode)
    \/ CoordOrderComplete(ServiceNode)
    \/ CoordNewPackage(ServiceNode)
    \/ DataTx(ServiceNode)
    \/ FsmStart(ServiceNode)
    \/ FsmHallRequests(ServiceNode)
    \/ FsmTick(ServiceNode)
    \/ DoorTimerExpires(ServiceNode)
    \/ FloorHitCompleteOrders(ServiceNode)
    \/ FloorHitOpenDoor(ServiceNode)

SpecService == ServiceInit /\ [][ServiceNext]_vars

(***************************************************************************)
(* Specification SpecEvents: one handler of the Coordinator of node E1 on  *)
(* bounded inputs.  The Coordinator holds any ElevatorData of EvtLocals    *)
(* and one event waits in one of its channels; no FSM, driver or network   *)
(* thread runs, so the channels show what the handler has sent.            *)
(***************************************************************************)
EvtNode == "E1"

EvtError == [NewElevatorState EXCEPT !.behaviour = "Error"]

EvtCab == [NewElevatorState EXCEPT !.cab_requests[1] = TRUE]

\* the states a cabin may have published
EvtStates == {NewElevatorState, PkgMoving, EvtError, EvtCab}

\* what the Coordinator may hold: its own entry, with no peer or with E2
EvtLocals ==
    { [version |-> 1, hall_requests |-> h,
       states |-> [id \in {EvtNode} \cup others |-> IF id = EvtNode THEN own ELSE peer]] :
        h \in PkgHalls, own \in EvtStates, others \in {{}, {"E2"}},
        peer \in {NewElevatorState, EvtError} }

\* the peer updates of the peer-rx thread: at most one new id, any set of lost ids
EvtPeerUpdates ==
    { [new |-> new, lost |-> lost] :
        new \in {"none"} \cup Ids, lost \in SUBSET {"E1", "E2"} }
      \ { [new |-> "none", lost |-> {}] }

\* the event that waits: a peer update, a button edge, a state or a completion of the
\* FSM; or a direct call hall_request_assigner(transmit), as the unit test makes it
EvtEvents ==
    ({"peer"} \X EvtPeerUpdates) \cup ({"request"} \X Buttons)
       \cup ({"state"} \X EvtStates) \cup ({"complete"} \X Buttons)
       \cup ({"reassign"} \X BOOLEAN)

EvtInit ==
    /\ \E l \in EvtLocals :
          /\ elevator_data = [n \in Nodes |-> IF n = EvtNode THEN l ELSE NewElevatorData(n)]
          /\ \E event \in EvtEvents :
                LET waiting(kind) == [n \in Nodes |-> IF n = EvtNode /\ event[1] = kind
                                                      THEN <<event[2]>> ELSE <<>>]
                IN  /\ call = [pc |-> IF event[1] = "reassign" THEN "reassign" ELSE "event",
                                local |-> l,
                                transmit |-> event[1] = "reassign" /\ event[2]]
                    /\ net_peer_update = waiting("peer")
                    /\ hw_request = waiting("request")
                    /\ fsm_state = waiting("state")
                    /\ fsm_order_complete = waiting("complete")
    /\ coord_status = [n \in Nodes |-> IF n = EvtNode THEN "running" ELSE "off"]
    /\ net_data_recv = [n \in Nodes |-> <<>>]
    /\ hw_button_light = [n \in Nodes |-> <<>>]
    /\ fsm_hall_requests = [n \in Nodes |-> <<>>]
    /\ fsm_cab_request = [n \in Nodes |-> <<>>]
    /\ net_data_send = [n \in Nodes |-> <<>>]
    /\ FsmInit({}, [n \in Nodes |-> NoCab])
    /\ HwInit({}, [n \in Nodes |-> 0])
    /\ env = NoBudget

\* hall_request_assigner(call.transmit) called on the data the Coordinator holds
CallHallRequestAssigner(n) ==
    /\ call.pc = "reassign"
    /\ CoordReady(n)
    /\ call.transmit => CoordTransmits(n)
    /\ \E share \in Shares(elevator_data[n], n) :
          LET hra == hall_request_assigner(elevator_data[n], call.transmit, share)
          IN  CoordApply(n, [data |-> hra.data, lamps |-> <<>>, to_fsm |-> hra.to_fsm,
                             cabs |-> <<>>, to_net |-> hra.to_net])
    /\ call' = [call EXCEPT !.pc = "done"]
    /\ UNCHANGED <<net_data_recv, net_peer_update, hw_request, fsm_state, fsm_order_complete>>
    /\ UNCHANGED <<fsmVars, hwVars, env>>

EvtNext ==
    \/ CallHallRequestAssigner(EvtNode)
    \/ CoordNewPeerUpdate(EvtNode)
    \/ CoordRequestReceived(EvtNode)
    \/ CoordNewElevatorState(EvtNode)
    \/ CoordOrderComplete(EvtNode)

SpecEvents == EvtInit /\ [][EvtNext]_vars

(***************************************************************************)
(* The hall calls of the cluster                                           *)
(***************************************************************************)
\* nothing is left to handle: every channel into a Coordinator, into an FSM and into
\* the network is empty
AtRest ==
    \A n \in Nodes :
        /\ net_data_recv[n] = <<>> /\ net_peer_update[n] = <<>> /\ hw_request[n] = <<>>
        /\ fsm_state[n] = <<>> /\ fsm_order_complete[n] = <<>>
        /\ net_data_send[n] = <<>> /\ fsm_hall_requests[n] = <<>>

\* no part of the system holds the call (floor, kind) any more
Forgotten(floor, kind) ==
    \A n \in Nodes :
        /\ ~elevator_data[n].hall_requests[floor][kind]
        /\ ~fsm[n].hall_requests[floor][kind]
        /\ ~InChannel(hw_request, n, LAMBDA r : r = <<floor, kind>>)
        /\ ~InChannel(fsm_hall_requests, n, LAMBDA a : a[floor][kind])
        /\ ~InChannel(net_data_send, n, LAMBDA d : d.hall_requests[floor][kind])
        /\ ~InChannel(net_data_recv, n, LAMBDA d : d.hall_requests[floor][kind])

(***************************************************************************)
(* C1: every hall call accepted from a button edge is eventually completed *)
(* by some FSM.  Stated on finite runs: a call that is pending (pressed,   *)
(* not completed by any FSM) is never forgotten by the whole system, for a *)
(* forgotten call is completed in no continuation without a new press.     *)
(***************************************************************************)
C1_AcceptedCallNotForgotten ==
    \A call_ \in env.pending : ~Forgotten(call_[1], call_[2])

(***************************************************************************)
(* C2: at any node hall_requests[f][k] changes from true to false only     *)
(* after some FSM of the cluster has emitted the completion of (f,k).      *)
(***************************************************************************)
C2_NoHallCallSilentlyLost ==
    [][\A n \in Nodes, f \in Floors, k \in HallKinds :
          (elevator_data[n].hall_requests[f][k] /\ ~elevator_data'[n].hall_requests[f][k])
              => <<f, k>> \in env'.completed]_vars

(***************************************************************************)
(* C4: when a node that is alone in its states and holds a hall call       *)
(* receives a snapshot that holds a peer id it does not know and another   *)
(* hall call (the rejoin after a partition), it ends with both calls: its  *)
(* hall_requests become the elementwise OR of its own and the incoming     *)
(* matrix.                                                                 *)
(***************************************************************************)
PackageStep(n) ==
    /\ coord_status[n] = "running"
    /\ net_data_recv[n] # <<>>
    /\ net_data_recv'[n] = Tail(net_data_recv[n])

RejoinSnapshot(n, incoming) ==
    /\ DOMAIN elevator_data[n].states = {n}
    /\ \E id \in DOMAIN incoming.states : id \notin DOMAIN elevator_data[n].states
    /\ \E b \in HallButtons : /\ elevator_data[n].hall_requests[b[1]][b[2]]
                              /\ ~incoming.hall_requests[b[1]][b[2]]
    /\ \E b \in HallButtons : /\ ~elevator_data[n].hall_requests[b[1]][b[2]]
                              /\ incoming.hall_requests[b[1]][b[2]]

C4_RejoinMergesCalls ==
    [][\A n \in Nodes :
          (PackageStep(n) /\ RejoinSnapshot(n, Head(net_data_recv[n])))
              => \A f \in Floors, k \in HallKinds :
                    elevator_data'[n].hall_requests[f][k] =
                        (elevator_data[n].hall_requests[f][k]
                            \/ Head(net_data_recv[n]).hall_requests[f][k])]_vars

(***************************************************************************)
(* C5: when all nodes know the same peer set, every sent snapshot has been *)
(* delivered and handled, no input is left and no FSM has a call left to   *)
(* serve, all nodes hold the same hall_requests matrix.                    *)
(***************************************************************************)
C5_Convergence ==
    (/\ AtRest
     /\ env.drops = MaxDrops
     /\ \A n \in Nodes : fsm[n].hall_requests = NoHall
     /\ \A n \in Nodes : DOMAIN elevator_data[n].states = Nodes)
        => \A n1 \in Nodes, n2 \in Nodes :
              elevator_data[n1].hall_requests = elevator_data[n2].hall_requests

(***************************************************************************)
(* C6: a hall call a node held when its peer was reported lost, and that   *)
(* it holds alone in its states after handling the loss, is its own to     *)
(* complete: it stays in the node's hall_requests until an FSM completes   *)
(* it.                                                                     *)
(***************************************************************************)
AloneAfterPeerLoss(n) ==
    /\ env.lost[n] # {}
    /\ net_peer_update[n] = <<>>
    /\ DOMAIN elevator_data[n].states = {n}

C6_TakenOverCallKept ==
    [][\A n \in Nodes, f \in Floors, k \in HallKinds :
          (/\ AloneAfterPeerLoss(n)
           /\ <<f, k>> \in env.held[n]
           /\ elevator_data[n].hall_requests[f][k]
           /\ ~elevator_data'[n].hall_requests[f][k])
              => <<f, k>> \in env'.completed]_vars

(***************************************************************************)
(* C8: a cab call the Coordinator had taken (flag set, lamp command sent,  *)
(* floor forwarded to the FSM) when the process was killed is loaded from  *)
(* the persisted file when the FSM starts again: the FSM starts with       *)
(* cab_requests[f] = true.                                                 *)
(***************************************************************************)
C8_CabCallSurvivesCrash ==
    [][\A n \in Nodes :
          (fsm_status[n] = "init" /\ fsm_status'[n] = "running")
              => \A f \in env.owed[n] : fsm'[n].state.cab_requests[f]]_vars

(***************************************************************************)
(* C11: at every node hall_requests[0][HALL_DOWN] and                      *)
(* hall_requests[N-1][HALL_UP] are false in every reachable state.         *)
(***************************************************************************)
C11_TopBottomInvariant ==
    \A n \in Nodes :
        /\ ~elevator_data[n].hall_requests[0][HALL_DOWN]
        /\ ~elevator_data[n].hall_requests[NFloors - 1][HALL_UP]

(***************************************************************************)
(* C12: at every node states always holds the local id, and no handler of  *)
(* the Coordinator fails on a missing local entry.                         *)
(***************************************************************************)
C12_LocalEntryPermanent ==
    \A n \in Nodes :
        /\ n \in DOMAIN elevator_data[n].states
        /\ coord_status[n] # "panicked"

\* a node has handled a peer update that lists its own id as lost, after an event that
\* raised its version
C12_Witness ==
    \E n \in Nodes :
        /\ n \in env.lost[n]
        /\ net_peer_update[n] = <<>>
        /\ elevator_data[n].version > 0
        /\ n \in DOMAIN elevator_data[n].states

(***************************************************************************)
(* C13: a peer that a node has removed from states on peer-lost does not   *)
(* reappear in its states unless a later peer update reports it as new:    *)
(* while the peer is reported lost and no peer update waits to be handled, *)
(* no step puts its id back into states.                                   *)
(***************************************************************************)
C13_LostPeerStaysOut ==
    [][\A n \in Nodes, id \in Nodes :
          (/\ id # n
           /\ id \in env.lost[n]
           /\ net_peer_update[n] = <<>>
           /\ id \notin DOMAIN elevator_data[n].states)
              => id \notin DOMAIN elevator_data'[n].states]_vars

(***************************************************************************)
(* C14: the version of a node never decreases; it changes only by +1       *)
(* together with the snapshot handed to the network, or, on an Accept, to  *)
(* the larger version of the incoming snapshot; every snapshot handed to   *)
(* the network carries the version just bumped.                            *)
(***************************************************************************)
C14_VersionMonotonic ==
    [][\A n \in Nodes :
          LET v == elevator_data[n].version
              w == elevator_data'[n].version
              handed == Len(net_data_send'[n]) > Len(net_data_send[n])
              last == net_data_send'[n][Len(net_data_send'[n])]
          IN  /\ w >= v
              /\ handed => (w = v + 1 /\ last.version = w)
              /\ (w # v /\ ~handed) =>
                    (PackageStep(n) /\ w = Head(net_data_recv[n]).version /\ w > v)]_vars

\* E2, which learns of E1 only by accepting a snapshot, has reached the highest version
\* and handed a snapshot with it to the network
C14_Witness ==
    /\ DOMAIN elevator_data["E2"].states = Nodes
    /\ elevator_data["E2"].version = MaxVersion
    /\ net_data_send["E2"] # <<>>
    /\ Head(net_data_send["E2"]).version = MaxVersion

(***************************************************************************)
(* C15: every hall lamp-on command a Coordinator sends is preceded by a    *)
(* button request for that call at some node, and every hall lamp-off      *)
(* command by a completion of that call emitted by some FSM.               *)
(***************************************************************************)
C15_LampCommandsJustified ==
    [][\A n \in Nodes :
          (NoDriver(n) /\ hw_button_light'[n] # hw_button_light[n]) =>
              \A i \in DOMAIN hw_button_light'[n] :
                  LET msg == hw_button_light'[n][i]
                  IN  msg[2] \in HallKinds =>
                         IF msg[3]
                         THEN <<msg[1], msg[2]>> \in env'.pending \cup env'.completed
                         ELSE <<msg[1], msg[2]>> \in env'.completed]_vars

(***************************************************************************)
(* C16: the hall lamps mirror the local snapshot.  The lamps are off and   *)
(* hall_requests is all false at start, so the last lamp command for (f,k) *)
(* equals hall_requests[f][k] after every event iff every handler that     *)
(* changes hall_requests[f][k] sends the lamp command (f,k,new value).     *)
(***************************************************************************)
C16_HallLampsMirrorSnapshot ==
    [][\A n \in Nodes, f \in Floors, k \in HallKinds :
          (/\ NoDriver(n)
           /\ elevator_data'[n].hall_requests[f][k] # elevator_data[n].hall_requests[f][k])
              => InChannel(hw_button_light', n,
                           LAMBDA msg : msg = <<f, k, elevator_data'[n].hall_requests[f][k]>>)]_vars

(***************************************************************************)
(* C17: when the same snapshot is delivered to a Coordinator twice in a    *)
(* row, the second application leaves the same ElevatorData as the first   *)
(* and produces the same lamp commands, FSM assignment and network sends.  *)
(* Stated for the snapshots that hold every local id, whose classification *)
(* does not depend on the iteration order of the local states.             *)
(***************************************************************************)
C17_SameSnapshotTwice ==
    (/\ call.pc = "twice"
     /\ Len(call.seen) = 2
     /\ DOMAIN call.local.states \subseteq DOMAIN call.a.states)
        => call.seen[2] = call.seen[1]

(***************************************************************************)
(* C18: a snapshot classified Merge sets every hall_requests[f][k] to      *)
(* (local OR incoming), writes every state entry of the snapshot whose id  *)
(* is not the local id into states, keeps every other entry, and leaves    *)
(* states[local id] and version unchanged.  After two merges the matrix is *)
(* the OR of the local matrix and both snapshots, whatever their order,    *)
(* and merging the same snapshot twice gives what merging it once gives.   *)
(***************************************************************************)
HallOr(x, y) == [f \in Floors |-> [k \in HallKinds |-> x[f][k] \/ y[f][k]]]

C18_MergeIsOr ==
    [][ /\ (call.pc = "merge" /\ net_data_recv[PkgNode] # <<>>
                /\ net_data_recv'[PkgNode] = <<>>) =>
            LET local == elevator_data[PkgNode]
                after == elevator_data'[PkgNode]
                incoming == Head(net_data_recv[PkgNode])
            IN  /\ after.hall_requests = HallOr(local.hall_requests, incoming.hall_requests)
                /\ DOMAIN after.states = DOMAIN local.states \cup DOMAIN incoming.states
                /\ \A id \in DOMAIN after.states :
                      after.states[id] =
                          IF id # PkgNode /\ id \in DOMAIN incoming.states
                          THEN incoming.states[id] ELSE local.states[id]
                /\ after.states[PkgNode] = local.states[PkgNode]
                /\ after.version = local.version
        /\ (call.pc = "merge" /\ Len(call'.seen) = 2) =>
            /\ call'.seen[2].data.hall_requests =
                  HallOr(HallOr(call.local.hall_requests, call.b.hall_requests),
                         call.a.hall_requests)
            /\ call.a = call.b =>
                  call'.seen[2].data.hall_requests = call'.seen[1].data.hall_requests
      ]_vars

\* two different snapshots have been merged: each brought a call, the first a new peer,
\* the second another state for that peer and for the local id
C18_Witness ==
    /\ call.pc = "merge" /\ Len(call.seen) = 2
    /\ call.a.hall_requests # call.b.hall_requests
    /\ call.seen[1].data.hall_requests # call.local.hall_requests
    /\ call.seen[2].data.hall_requests # call.seen[1].data.hall_requests
    /\ DOMAIN call.seen[1].data.states # DOMAIN call.local.states
    /\ \E id \in DOMAIN call.seen[1].data.states \ {PkgNode} :
          call.seen[2].data.states[id] # call.seen[1].data.states[id]
    /\ call.b.states[PkgNode] # call.seen[2].data.states[PkgNode]

(***************************************************************************)
(* C19: a snapshot classified Accept makes the Coordinator send one lamp   *)
(* command (f, k, incoming value) for exactly the hall cells whose         *)
(* incoming value differs from the local one; afterwards version,          *)
(* hall_requests and states are those of the snapshot; the FSM is sent one *)
(* assignment, made of calls of the snapshot; nothing is handed to the     *)
(* network.  A snapshot that is Accept whatever the iteration order of the *)
(* local states does send the assignment; Merge and Reject send none, so   *)
(* an assignment sent marks the Accept branch.                             *)
(***************************************************************************)
LampCommandsFor(lamps, f, k) == { i \in 1..Len(lamps) : lamps[i][1] = f /\ lamps[i][2] = k }

C19_AcceptEffect ==
    [][ (call.pc = "twice" /\ net_data_recv[PkgNode] # <<>>
            /\ net_data_recv'[PkgNode] = <<>>) =>
        LET local == elevator_data[PkgNode]
            after == elevator_data'[PkgNode]
            incoming == Head(net_data_recv[PkgNode])
            lamps == hw_button_light'[PkgNode]
            assigned == Len(fsm_hall_requests'[PkgNode]) > Len(fsm_hall_requests[PkgNode])
        IN  /\ (\A last_key \in LastKeys(local) :
                    check_merge_type(local, incoming, last_key) = "Accept") => assigned
            /\ assigned =>
                /\ \A f \in Floors, k \in HallKinds :
                      IF incoming.hall_requests[f][k] # local.hall_requests[f][k]
                      THEN /\ Cardinality(LampCommandsFor(lamps, f, k)) = 1
                           /\ \A i \in LampCommandsFor(lamps, f, k) :
                                 lamps[i] = <<f, k, incoming.hall_requests[f][k]>>
                      ELSE LampCommandsFor(lamps, f, k) = {}
                /\ \A i \in 1..Len(lamps) : lamps[i][2] \in HallKinds
                /\ after.version = incoming.version
                /\ after.hall_requests = incoming.hall_requests
                /\ after.states = incoming.states
                /\ Len(fsm_hall_requests'[PkgNode]) = Len(fsm_hall_requests[PkgNode]) + 1
                /\ \A f \in Floors, k \in HallKinds :
                      fsm_hall_requests'[PkgNode][Len(fsm_hall_requests'[PkgNode])][f][k]
                          => incoming.hall_requests[f][k]
                /\ net_data_send'[PkgNode] = net_data_send[PkgNode]
      ]_vars

\* a snapshot has been accepted that switches one lamp on and another off and brings
\* other states
C19_Witness ==
    /\ call.pc = "twice" /\ Len(call.seen) >= 1
    /\ call.seen[1].to_fsm # <<>>
    /\ \E i, j \in 1..Len(call.seen[1].lamps) :
          call.seen[1].lamps[i][3] /\ ~call.seen[1].lamps[j][3]
    /\ DOMAIN call.local.states # DOMAIN call.a.states
    /\ call.seen[1].data.version > call.local.version

(***************************************************************************)
(* C20: a node whose local-IP probe failed keeps running in offline        *)
(* single-cabin mode: its Coordinator and its FSM neither exit nor panic   *)
(* because a network channel end is dropped.                               *)
(***************************************************************************)
C20_OfflineKeepsRunning ==
    \A n \in env.offline :
        /\ coord_status[n] = "running"
        /\ fsm_status[n] \in {"init", "running"}

(***************************************************************************)
(* C21 as stated: for every direction and behaviour, complete_orders at    *)
(* floor 0 clears a pending HALL_DOWN request and complete_orders at floor *)
(* N-1 clears a pending HALL_UP request.                                   *)
(***************************************************************************)
C21_Original ==
    call.pc = "completed" =>
        /\ (call.st.floor = 0 /\ call.hall[0][HALL_DOWN])
              => ~call.co.hall_requests[0][HALL_DOWN]
        /\ (call.st.floor = NFloors - 1 /\ call.hall[NFloors - 1][HALL_UP])
              => ~call.co.hall_requests[NFloors - 1][HALL_UP]

(***************************************************************************)
(* C21 as amended: for every direction and behaviour, complete_orders at   *)
(* floor 0 clears a pending HALL_UP request and complete_orders at floor   *)
(* N-1 clears a pending HALL_DOWN request, and emits its completion.       *)
(***************************************************************************)
SentOnce(sent, order) == Cardinality({ i \in 1..Len(sent) : sent[i] = order }) = 1

\* C21 (amended): complete_orders clears HALL_UP at floor 0 and HALL_DOWN at
\* floor N-1 whatever the direction, and emits each completion exactly once.
C21_BoundaryRule ==
    call.pc = "completed" =>
        /\ (call.st.floor = 0 /\ call.hall[0][HALL_UP])
              => /\ ~call.co.hall_requests[0][HALL_UP]
                 /\ SentOnce(call.co.sent, <<0, HALL_UP>>)
                 /\ call.co.orders_completed
        /\ (call.st.floor = NFloors - 1 /\ call.hall[NFloors - 1][HALL_DOWN])
              => /\ ~call.co.hall_requests[NFloors - 1][HALL_DOWN]
                 /\ SentOnce(call.co.sent, <<NFloors - 1, HALL_DOWN>>)
                 /\ call.co.orders_completed

\* a hall-up call at floor 0 is cleared for a cabin that is Moving with direction Down
C21_Witness ==
    /\ call.pc = "completed"
    /\ call.st.floor = 0 /\ call.st.direction = "Down" /\ call.st.behaviour = "Moving"
    /\ call.hall[0][HALL_UP] /\ ~call.co.hall_requests[0][HALL_UP]

(***************************************************************************)
(* C27: complete_orders at floor F clears and emits a completion for the   *)
(* cab call at F always, for the hall-up call at F exactly when direction  *)
(* is Up or behaviour is Idle or F = 0, for the hall-down call at F        *)
(* exactly when direction is Down or behaviour is Idle or F = N-1; it      *)
(* changes no flag at another floor and nothing else of the state, emits   *)
(* each completion once and no other, and returns true exactly when an     *)
(* order was cleared.                                                      *)
(***************************************************************************)
C27_Cleared(order) ==
    LET F == call.st.floor
        d == call.st.direction
        b == call.st.behaviour
    IN  /\ order[1] = F
        /\ \/ order[2] = CAB /\ call.st.cab_requests[F]
           \/ order[2] = HALL_UP /\ call.hall[F][HALL_UP]
                 /\ (d = "Up" \/ b = "Idle" \/ F = 0)
           \/ order[2] = HALL_DOWN /\ call.hall[F][HALL_DOWN]
                 /\ (d = "Down" \/ b = "Idle" \/ F = NFloors - 1)

C28_OrderAt(f) ==
    call.st.cab_requests[f] \/ call.hall[f][HALL_UP] \/ call.hall[f][HALL_DOWN]

C28_Above == \E f \in Floors : f > call.st.floor /\ C28_OrderAt(f)

C28_Below == \E f \in Floors : f < call.st.floor /\ C28_OrderAt(f)

C29_FloorHitPolicy ==
    [][ (fsm_status[FsmNode] = "running" /\ hw_floor_sensor[FsmNode] # <<>>
            /\ hw_floor_sensor'[FsmNode] = Tail(hw_floor_sensor[FsmNode])) =>
        LET f == Head(hw_floor_sensor[FsmNode])
            F == fsm[FsmNode]
            G == fsm'[FsmNode]
            at_f == [F.state EXCEPT !.floor = f]
            completes == complete_orders(at_f, F.hall_requests).orders_completed
            no_orders == \A g \in Floors :
                            /\ ~F.state.cab_requests[g]
                            /\ \A k \in HallKinds : ~F.hall_requests[g][k]
            published == fsm_state'[FsmNode]
            motor_sent(cmd) ==
                hw_motor_direction'[FsmNode] = Append(hw_motor_direction[FsmNode], cmd)
        IN  /\ G.state.floor = f
            /\ hw_floor_indicator'[FsmNode] = f
            /\ IF completes
               THEN /\ motor_sent(DIRN_STOP)
                    /\ G.state.behaviour = "DoorOpen"
                    /\ hw_door_light'[FsmNode] = Append(hw_door_light[FsmNode], TRUE)
               ELSE /\ hw_door_light'[FsmNode] = hw_door_light[FsmNode]
                    /\ G.state.direction = choose_direction(at_f, F.hall_requests)
                    /\ IF G.state.direction = "Stop"
                       THEN G.state.behaviour = "Idle" /\ motor_sent(DIRN_STOP)
                       ELSE /\ G.state.behaviour = "Moving"
                            /\ motor_sent(to_u8(G.state.direction))
                            /\ G.motor_timer = "running"
            /\ published # <<>>
            /\ published[Len(published)] = G.state
            /\ no_orders =>
                  \A i \in 1..Len(published) :
                      /\ published[i].behaviour = "Idle"
                      /\ published[i].direction = "Stop"
                      /\ published[i].floor = f
      ]_vars

\* the FSM has handled the edge of floor 1, completed a call there and opened the door
C29_Witness ==
    /\ fsm_status[FsmNode] = "running"
    /\ Len(fsm_state[FsmNode]) = 2
    /\ fsm[FsmNode].state.floor = 1
    /\ hw_floor_indicator[FsmNode] = 1
    /\ fsm[FsmNode].state.behaviour = "DoorOpen"

(***************************************************************************)
(* C30: between its start-up and the first floor-sensor edge it handles,   *)
(* whatever cab calls were loaded and whatever ticks, cab requests or hall *)
(* assignments arrive, the FSM emits no order-completion event, does not   *)
(* open the door and sends no motor command.  Stated for a cabin that is   *)
(* between two floors, where no floor-sensor edge can have been sent.      *)
(***************************************************************************)
C30_QuietUntilFirstFloor ==
    [][ (fsm_status[FsmNode] = "running" /\ hw_floor_indicator[FsmNode] = -1
            /\ hw_floor_indicator'[FsmNode] = -1
            /\ ~AtFloor(FsmNode) /\ hw_floor_sensor[FsmNode] = <<>>) =>
        /\ fsm_order_complete'[FsmNode] = <<>>
        /\ Len(hw_door_light'[FsmNode]) <= Len(hw_door_light[FsmNode])
        /\ Len(hw_motor_direction'[FsmNode]) <= Len(hw_motor_direction[FsmNode])
        /\ fsm'[FsmNode].state.behaviour = "Idle"
      ]_vars

(***************************************************************************)
(* C26: the driver fires a request event for (f,k) only when the pending   *)
(* flag of (f,k) is false, and firing sets the flag; the flag falls only   *)
(* when the driver takes a lamp command (f,k,false), and a lamp command    *)
(* (f,k,v) sets it to v.  So no second request event for (f,k) is fired    *)
(* between a request event and the next lamp-off command, and the flag is  *)
(* false after that command.                                               *)
(***************************************************************************)
C26_Debounce ==
    [][ \A b \in Buttons :
          LET flag == driver[DriverNode].d.requests[b[1]][b[2]]
              after == driver'[DriverNode].d.requests[b[1]][b[2]]
              fired == /\ Len(hw_request'[DriverNode]) > Len(hw_request[DriverNode])
                       /\ hw_request'[DriverNode][Len(hw_request'[DriverNode])]
                             = <<b[1], b[2]>>
              taken == /\ hw_button_light[DriverNode] # <<>>
                       /\ hw_button_light'[DriverNode] = Tail(hw_button_light[DriverNode])
              msg == Head(hw_button_light[DriverNode])
          IN  /\ fired => ~flag /\ after
              /\ (flag /\ ~after) => taken /\ msg = <<b[1], b[2], FALSE>>
              /\ (taken /\ msg[1] = b[1] /\ msg[2] = b[2]) => after = msg[3]
              /\ (~flag /\ after /\ ~fired) => taken /\ msg = <<b[1], b[2], TRUE>>
      ]_vars

\* button (1, HALL_UP) has fired, its lamp was switched off, and it has fired again
C26_Witness ==
    /\ env.presses_at[DriverNode] = MaxDriverPresses - 2
    /\ env.lamp_msgs = MaxLampMsgs - 1
    /\ hw_button_light[DriverNode] = <<>>
    /\ hw_request[DriverNode] = << <<1, HALL_UP>> >>
    /\ driver[DriverNode].d.requests[1][HALL_UP]
    /\ ~hw[DriverNode].lamps[1][HALL_UP]
    /\ \A b \in Buttons : driver[DriverNode].d.requests[b[1]][b[2]] => b = <<1, HALL_UP>>
    /\ env.pending = {<<1, HALL_UP>>}

(***************************************************************************)
(* C24: for each snapshot and each key of its states, send_ack calls       *)
(* send_to at least once and at most max_retries times, never again after  *)
(* an "ACK" datagram from the address of that peer has been taken (no      *)
(* other datagram counts), and leaves a peer without an ACK only after     *)
(* max_retries tries; snapshots are taken from net_data_send in order, one *)
(* fan-out at a time, and every fan-out finishes.                          *)
(***************************************************************************)
C24_Current == <<call.data.version, Head(call.peer_addresses)>>

C24_RetryStep ==
    /\ \A vp \in NetKeys :
         /\ env'.sends[vp] > env.sends[vp] =>
              /\ call.pc = "send_to" /\ vp = C24_Current
              /\ vp \notin env.acked
              /\ env'.sends[vp] <= max_retries
              /\ \A later \in NetKeys : later[1] > vp[1] => env.sends[later] = 0
         /\ (vp \in env'.acked /\ vp \notin env.acked) =>
              /\ call.pc = "recv_from" /\ vp = C24_Current
              /\ Head(call.socket) = <<vp[2], "ACK">>
    /\ (call.pc # "recv" /\ call'.peer_addresses # call.peer_addresses) =>
         /\ env'.sends[C24_Current] >= 1
         /\ C24_Current \in env'.acked \/ env'.sends[C24_Current] = max_retries
         /\ call'.peer_addresses = Tail(call.peer_addresses)
    /\ Len(net_data_send'[NetNode]) < Len(net_data_send[NetNode]) =>
         /\ call.pc = "recv"
         /\ net_data_send'[NetNode] = Tail(net_data_send[NetNode])
         /\ call'.data = Head(net_data_send[NetNode])
         /\ Len(call'.peer_addresses) = Cardinality(DOMAIN call'.data.states)
         /\ {call'.peer_addresses[i] : i \in 1..Len(call'.peer_addresses)}
               = DOMAIN call'.data.states
    /\ (call'.data # call.data /\ call'.pc # "recv") =>
         Len(net_data_send'[NetNode]) < Len(net_data_send[NetNode])

C25_DataRxStep ==
    \A k \in Nodes :
      (call.msg_socket[k] # <<>> /\ call'.msg_socket[k] = Tail(call.msg_socket[k])) =>
        LET src_addr == Head(call.msg_socket[k])[1]
            message == Head(call.msg_socket[k])[2]
        IN  IF IsElevatorData(message)
            THEN /\ net_data_recv'[k] = << from_str(message) >>
                 /\ to_string(from_str(message)) = message
                 /\ env'.published[<<message[2], k>>] = env.published[<<message[2], k>>] + 1
                 /\ \/ call'.socket = call.socket
                    \/ /\ src_addr = <<NetNode, call.port>>
                       /\ call'.socket = Append(call.socket, <<k, "ACK">>)
            ELSE /\ net_data_recv' = net_data_recv
                 /\ env'.published = env.published
                 /\ call'.socket = call.socket

\* C25: Data-RX answers "ACK" to the sender and publishes the snapshot only
\* for a datagram that deserialises; anything else is dropped silently.
C25_DataRx ==
    /\ [][C25_DataRxStep]_vars
    /\ [](\A vp \in NetKeys :
            /\ vp \in env.acked => env.published[vp] >= 1
            /\ env.published[vp] <= env.sends[vp])

\* E2 has published the first snapshot twice (the first ACK came too late for the first
\* try) and send_ack has counted an ACK of E2; a malformed datagram has been dropped
C25_Witness ==
    /\ <<1, "E2">> \in env.acked
    /\ env.published[<<1, "E2">>] = 2
    /\ env.garbage = 0 /\ call.msg_socket["E2"] = <<>>

(***************************************************************************)
(* C23: a worker (FSM, Coordinator, driver) that runs with a message on    *)
(* its terminate channel eventually leaves its main loop; taking the       *)
(* message ends the loop, and a worker that has taken it takes nothing     *)
(* more from its channels, sends nothing more and changes nothing.         *)
(***************************************************************************)
C23_NotTaken(ch, n) == Len(ch'[n]) >= Len(ch[n])

C23_NotSent(ch, n) == Len(ch'[n]) <= Len(ch[n])

C23_FsmStopped(n) ==
    /\ fsm_status'[n] = "terminated"
    /\ fsm'[n] = fsm[n]
    /\ C23_NotTaken(fsm_hall_requests, n) /\ C23_NotTaken(fsm_cab_request, n)
    /\ C23_NotTaken(hw_floor_sensor, n) /\ C23_NotTaken(hw_obstruction, n)
    /\ C23_NotTaken(hw_stop_button, n) /\ C23_NotTaken(fsm_terminate, n)
    /\ C23_NotSent(fsm_state, n) /\ C23_NotSent(fsm_order_complete, n)
    /\ C23_NotSent(hw_motor_direction, n) /\ C23_NotSent(hw_door_light, n)
    /\ hw_floor_indicator'[n] = hw_floor_indicator[n]
    /\ peer_tx_enabled'[n] = peer_tx_enabled[n]
    /\ cab_orders_file'[n] = cab_orders_file[n]

C23_CoordStopped(n) ==
    /\ coord_status'[n] = "terminated"
    /\ elevator_data'[n] = elevator_data[n]
    /\ C23_NotTaken(hw_request, n) /\ C23_NotTaken(fsm_state, n)
    /\ C23_NotTaken(fsm_order_complete, n) /\ C23_NotTaken(net_data_recv, n)
    /\ C23_NotTaken(net_peer_update, n)
    /\ Len(env'.coordinator_terminate[n]) >= Len(env.coordinator_terminate[n])
    /\ C23_NotSent(hw_button_light, n) /\ C23_NotSent(fsm_hall_requests, n)
    /\ C23_NotSent(fsm_cab_request, n) /\ C23_NotSent(net_data_send, n)

C23_DriverStopped(n) ==
    /\ driver'[n] = driver[n]
    /\ hw'[n] = hw[n]
    /\ C23_NotTaken(hw_motor_direction, n) /\ C23_NotTaken(hw_button_light, n)
    /\ C23_NotTaken(hw_door_light, n)
    /\ Len(env'.hw_terminate[n]) >= Len(env.hw_terminate[n])
    /\ C23_NotSent(hw_request, n) /\ C23_NotSent(hw_floor_sensor, n)
    /\ C23_NotSent(hw_obstruction, n) /\ C23_NotSent(hw_stop_button, n)

C23_Step ==
    /\ Len(fsm_terminate'[StopNode]) < Len(fsm_terminate[StopNode]) =>
          fsm_status[StopNode] = "running" /\ fsm_status'[StopNode] = "terminated"
    /\ Len(env'.coordinator_terminate[StopNode]) < Len(env.coordinator_terminate[StopNode]) =>
          coord_status[StopNode] = "running" /\ coord_status'[StopNode] = "terminated"
    /\ Len(env'.hw_terminate[StopNode]) < Len(env.hw_terminate[StopNode]) =>
          driver[StopNode].status = "running" /\ driver'[StopNode].status = "terminated"
    /\ fsm_status[StopNode] = "terminated" => C23_FsmStopped(StopNode)
    /\ coord_status[StopNode] = "terminated" => C23_CoordStopped(StopNode)
    /\ driver[StopNode].status = "terminated" => C23_DriverStopped(StopNode)

\* C23: a worker that takes a terminate message leaves its loop, handles and
\* sends nothing afterwards, and every terminate message sent is taken.
C23_Cancellation ==
    /\ [][C23_Step]_vars
    /\ (fsm_status[StopNode] = "running" /\ fsm_terminate[StopNode] # <<>>)
          ~> (fsm_status[StopNode] # "running")
    /\ (coord_status[StopNode] = "running" /\ env.coordinator_terminate[StopNode] # <<>>)
          ~> (coord_status[StopNode] # "running")
    /\ (driver[StopNode].status = "running" /\ env.hw_terminate[StopNode] # <<>>)
          ~> (driver[StopNode].status # "running")

\* the FSM has left its loop with a cab request waiting on fsm_cab_request, and the
\* driver has left its loop with a lamp command waiting on hw_button_light
C23_Witness ==
    /\ fsm_status[StopNode] = "terminated" /\ fsm_cab_request[StopNode] # <<>>
    /\ driver[StopNode].status = "terminated" /\ hw_button_light[StopNode] # <<>>
    /\ coord_status[StopNode] = "running"

(***************************************************************************)
(* C22: single-cabin service of the hall call (2, HALL_UP) from rest at    *)
(* floor 0.  C22_Original is the order as stated, over all threads: lamp   *)
(* on before motor Up, and motor Stop and door lamp on before the          *)
(* Coordinator clears the call and sends lamp off, which comes before door *)
(* lamp off.  C22_ServiceOrder is the order the code keeps: each thread in *)
(* its own order (FSM: motor Up, floor 1 passed, floor 2, completion,      *)
(* motor Stop, door lamp on, door lamp off, Idle; Coordinator: lamp on,    *)
(* call cleared, lamp off) and the completion before the clearing.         *)
(***************************************************************************)
C22_Pressed == env.presses_at[ServiceNode] = 0

C22_Sent(ch, msg) ==
    /\ Len(ch'[ServiceNode]) > Len(ch[ServiceNode])
    /\ \E i \in (Len(ch[ServiceNode]) + 1)..Len(ch'[ServiceNode]) : ch'[ServiceNode][i] = msg

\* the cabin is back at rest: Idle at floor 2, door lamp and hall lamp off, call served
C22_Served ==
    /\ C22_Pressed
    /\ fsm_status[ServiceNode] = "running"
    /\ fsm[ServiceNode].state.behaviour = "Idle" /\ fsm[ServiceNode].state.floor = 2
    /\ ~fsm[ServiceNode].hall_requests[2][HALL_UP]
    /\ ~elevator_data[ServiceNode].hall_requests[2][HALL_UP]
    /\ ~hw[ServiceNode].lamps[2][HALL_UP] /\ ~hw[ServiceNode].door_light
    /\ hw[ServiceNode].motor = DIRN_STOP
    /\ hw_button_light[ServiceNode] = <<>> /\ hw_door_light[ServiceNode] = <<>>
    /\ fsm_hall_requests[ServiceNode] = <<>> /\ fsm_state[ServiceNode] = <<>>
    /\ fsm_order_complete[ServiceNode] = <<>>

C22_LampOnSent ==
    \/ hw[ServiceNode].lamps[2][HALL_UP]
    \/ \E i \in 1..Len(hw_button_light[ServiceNode]) :
          hw_button_light[ServiceNode][i] = <<2, HALL_UP, TRUE>>

C22_Cleared ==
    /\ elevator_data[ServiceNode].hall_requests[2][HALL_UP]
    /\ ~elevator_data'[ServiceNode].hall_requests[2][HALL_UP]

C22_DoorOpened ==
    /\ fsm_status[ServiceNode] = "running"
    /\ fsm[ServiceNode].state.floor = 2
    /\ fsm[ServiceNode].state.behaviour \in {"DoorOpen", "Idle"}

C22_Original ==
    [][ C22_Pressed =>
        /\ C22_Sent(hw_motor_direction, DIRN_UP) => C22_LampOnSent
        /\ C22_Cleared => C22_DoorOpened
        /\ C22_Sent(hw_button_light, <<2, HALL_UP, FALSE>>) => C22_DoorOpened
        /\ C22_Sent(hw_door_light, FALSE) =>
              ~elevator_data[ServiceNode].hall_requests[2][HALL_UP]
      ]_vars

C22_FloorEdge(floor) ==
    /\ hw_floor_sensor[ServiceNode] # <<>>
    /\ Head(hw_floor_sensor[ServiceNode]) = floor
    /\ hw_floor_sensor'[ServiceNode] = Tail(hw_floor_sensor[ServiceNode])

\* an assignment computed before the Coordinator handled the completion has brought
\* the call back to the FSM, which serves it again at floor 2 after the door has closed
C22_ServedAgain ==
    /\ fsm_status[ServiceNode] = "running"
    /\ fsm[ServiceNode].state.behaviour = "Idle" /\ fsm[ServiceNode].state.floor = 2
    /\ fsm[ServiceNode].hall_requests[2][HALL_UP]
    /\ fsm'[ServiceNode].state.behaviour = "DoorOpen"

C22_Step ==
    LET F == fsm[ServiceNode]
        G == fsm'[ServiceNode]
    IN  C22_Pressed =>
        \* FSM: motor Up from rest, with the assignment (and again when floor 1 is passed)
        /\ C22_Sent(hw_motor_direction, DIRN_UP) =>
              \/ C22_FloorEdge(1)
              \/ /\ F.state.behaviour = "Idle" /\ F.state.floor = 0
                 /\ F.hall_requests[2][HALL_UP]
                 /\ G.state.behaviour = "Moving" /\ G.state.direction = "Up"
        \* FSM: floor 1 is passed: no stop, no door, no completion
        /\ C22_FloorEdge(1) =>
              /\ F.state.behaviour = "Moving" /\ F.state.floor = 0
              /\ ~C22_Sent(hw_motor_direction, DIRN_STOP)
              /\ hw_door_light'[ServiceNode] = hw_door_light[ServiceNode]
              /\ fsm_order_complete'[ServiceNode] = fsm_order_complete[ServiceNode]
              /\ G.state.behaviour = "Moving" /\ G.state.direction = "Up"
              /\ G.state.floor = 1
        \* FSM: floor 2: the completion is sent first
        /\ C22_FloorEdge(2) =>
              /\ F.state.behaviour = "Moving" /\ F.state.floor = 1
              /\ C22_Sent(fsm_order_complete, ServiceCall)
              /\ ~G.hall_requests[2][HALL_UP]
              /\ hw_motor_direction'[ServiceNode] = hw_motor_direction[ServiceNode]
              /\ hw_door_light'[ServiceNode] = hw_door_light[ServiceNode]
              /\ fsm_status'[ServiceNode] = "floor_hit"
        \* FSM: then motor Stop and door lamp on
        /\ fsm_status[ServiceNode] = "floor_hit" /\ fsm_status'[ServiceNode] # "floor_hit" =>
              /\ C22_Sent(hw_motor_direction, DIRN_STOP)
              /\ C22_Sent(hw_door_light, TRUE)
              /\ G.state.behaviour = "DoorOpen" /\ G.state.floor = 2
        /\ C22_Sent(hw_door_light, TRUE) =>
              fsm_status[ServiceNode] = "floor_hit" \/ C22_ServedAgain
        \* FSM: door lamp off when the door timer has elapsed, then Idle
        /\ C22_Sent(hw_door_light, FALSE) =>
              /\ F.state.behaviour = "DoorOpen" /\ F.door_timer = "expired"
              /\ ~F.obstruction
              /\ G.state.behaviour = "Idle" /\ G.state.floor = 2
        \* Coordinator: the call is cleared and the lamp off sent on the completion
        /\ C22_Cleared => C22_Sent(hw_button_light, <<2, HALL_UP, FALSE>>)
        /\ C22_Sent(hw_button_light, <<2, HALL_UP, FALSE>>) =>
              /\ fsm_order_complete[ServiceNode] # <<>>
              /\ Head(fsm_order_complete[ServiceNode]) = ServiceCall
              /\ fsm_order_complete'[ServiceNode] = Tail(fsm_order_complete[ServiceNode])
              /\ ~elevator_data'[ServiceNode].hall_requests[2][HALL_UP]
              /\ F.state.floor = 2
        /\ C22_Sent(fsm_order_complete, ServiceCall) => C22_FloorEdge(2) \/ C22_ServedAgain
        \* once the FSM has reached floor 2 it stays there
        /\ F.state.floor = 2 => G.state.floor = 2 /\ ~C22_Sent(hw_motor_direction, DIRN_UP)

\* C22 (amended): every step of the single-cabin service of HALL_UP@2 keeps
\* the order of its own thread; the completion links FSM and Coordinator.
C22_ServiceOrder == [][C22_Step]_vars

C22_Witness == C22_Served /\ elevator_data[ServiceNode].version > 0

(***************************************************************************)
(* What the FSM has sent to the driver                                     *)
(***************************************************************************)
\* the messages a step appends to channel ch of node n
Sent(ch, ch2, n) ==
    IF Len(ch2[n]) > Len(ch[n]) THEN SubSeq(ch2[n], Len(ch[n]) + 1, Len(ch2[n])) ELSE <<>>

\* the last motor command sent: the newest one in the channel, or the one the driver
\* applied last
LastMotorCommand(n) ==
    IF hw_motor_direction[n] # <<>> THEN hw_motor_direction[n][Len(hw_motor_direction[n])]
    ELSE hw[n].motor

\* the door lamp is on: the last door command sent is "on"
DoorLampOn(n) ==
    IF hw_door_light[n] # <<>> THEN hw_door_light[n][Len(hw_door_light[n])]
    ELSE hw[n].door_light

(***************************************************************************)
(* C7: when the FSM is Moving and finds the motor timer expired, its       *)
(* behaviour becomes Error (while it re-sends the motor command).  Stated  *)
(* on the tick that re-sends the command: after it the behaviour is Error. *)
(***************************************************************************)
MotorRetryStep(n) ==
    /\ fsm_status[n] = "running"
    /\ fsm[n].state.behaviour = "Moving"
    /\ fsm[n].motor_timer = "expired"
    /\ hw_floor_sensor'[n] = hw_floor_sensor[n]
    /\ Sent(hw_motor_direction, hw_motor_direction', n) # <<>>

C7_MotorLossBecomesError ==
    [][\A n \in Nodes : MotorRetryStep(n) => fsm'[n].state.behaviour = "Error"]_vars

(***************************************************************************)
(* C9: while the door lamp is on, the last motor command sent by the FSM   *)
(* is Stop and the behaviour is DoorOpen.                                  *)
(***************************************************************************)
C9_DoorMotorExclusion ==
    \A n \in Nodes :
        (fsm_status[n] = "running" /\ DoorLampOn(n)) =>
            /\ LastMotorCommand(n) = DIRN_STOP
            /\ fsm[n].state.behaviour = "DoorOpen"

(***************************************************************************)
(* C10: the FSM never sends motor command Up while its recorded floor is   *)
(* the top floor and never sends Down while its recorded floor is 0.       *)
(* C10_Original includes the start-up command, C10_AfterStartUp is the     *)
(* same statement about every command after the start-up command.          *)
(***************************************************************************)
MotorCommandsWithinShaft(n) ==
    \A i \in DOMAIN Sent(hw_motor_direction, hw_motor_direction', n) :
        LET cmd == Sent(hw_motor_direction, hw_motor_direction', n)[i]
        IN  /\ cmd = DIRN_UP => fsm'[n].state.floor # NFloors - 1
            /\ cmd = DIRN_DOWN => fsm'[n].state.floor # 0

C10_Original ==
    [][\A n \in Nodes : MotorCommandsWithinShaft(n)]_vars

C10_AfterStartUp ==
    [][\A n \in Nodes : fsm_status[n] = "running" => MotorCommandsWithinShaft(n)]_vars

\* the FSM has sent Down at the top floor, the cabin being on its way there
C10_Witness ==
    /\ fsm[FsmNode].state.floor = NFloors - 1
    /\ fsm[FsmNode].state.behaviour = "Moving"
    /\ hw_motor_direction[FsmNode] = <<DIRN_DOWN>>
    /\ hw[FsmNode].pos = TopPos

(***************************************************************************)
(* C31: on a tick in DoorOpen with no obstruction and the door timer       *)
(* elapsed, the FSM sends door lamp off, chooses a direction, completes    *)
(* the matching orders at the current floor, sends the chosen direction as *)
(* motor command, becomes Idle when that direction is Stop and Moving      *)
(* (motor timer re-armed) otherwise, and publishes its state; with only a  *)
(* cab call at the current floor pending, the published state is Idle with *)
(* direction Stop and that cab flag cleared.                               *)
(***************************************************************************)
\* the tick of node n that finds the door timer elapsed and no obstruction
C31_DoorCloseTick(n) ==
    /\ fsm_status[n] = "running"
    /\ fsm[n].state.behaviour = "DoorOpen"
    /\ ~fsm[n].obstruction
    /\ fsm[n].door_timer = "expired"
    /\ FsmIdleChannels(n)
    /\ fsm'[n] # fsm[n]

\* the only pending order is the cab call at the current floor
C31_OnlyCabHere(F) ==
    /\ \A g \in Floors : F.state.cab_requests[g] <=> g = F.state.floor
    /\ \A g \in Floors, k \in HallKinds : ~F.hall_requests[g][k]

\* C31: the door-close tick sends lamp off, the chosen direction, the completions of
\* the matching orders and the new state, and ends Idle or Moving.
C31_DoorCloseStep ==
    [][ C31_DoorCloseTick(FsmNode) =>
        LET F == fsm[FsmNode]
            G == fsm'[FsmNode]
            floor == F.state.floor
            dir == G.state.direction
            cab == F.state.cab_requests[floor]
            up == F.hall_requests[floor][HALL_UP] /\ (dir = "Up" \/ floor = 0)
            down == F.hall_requests[floor][HALL_DOWN]
                       /\ (dir = "Down" \/ floor = NFloors - 1)
        IN  /\ Sent(hw_door_light, hw_door_light', FsmNode) = <<FALSE>>
            /\ dir = choose_direction(F.state, F.hall_requests)
            /\ Sent(hw_motor_direction, hw_motor_direction', FsmNode) = <<to_u8(dir)>>
            /\ G.state.floor = floor
            /\ G.state.cab_requests = [F.state.cab_requests EXCEPT ![floor] = FALSE]
            /\ G.hall_requests =
                  [F.hall_requests EXCEPT ![floor][HALL_UP] = @ /\ ~up,
                                          ![floor][HALL_DOWN] = @ /\ ~down]
            /\ \A order \in Floors \X {HALL_UP, HALL_DOWN, CAB} :
                  Cardinality({ i \in 1..Len(fsm_order_complete'[FsmNode]) :
                                   fsm_order_complete'[FsmNode][i] = order })
                     = IF \/ order = <<floor, CAB>> /\ cab
                          \/ order = <<floor, HALL_UP>> /\ up
                          \/ order = <<floor, HALL_DOWN>> /\ down
                       THEN 1 ELSE 0
            /\ IF dir = "Stop"
               THEN G.state.behaviour = "Idle"
               ELSE G.state.behaviour = "Moving" /\ G.motor_timer = "running"
            /\ fsm_state'[FsmNode] = <<G.state>>
            /\ C31_OnlyCabHere(F) =>
                  /\ fsm_state'[FsmNode][1].behaviour = "Idle"
                  /\ fsm_state'[FsmNode][1].direction = "Stop"
                  /\ ~fsm_state'[FsmNode][1].cab_requests[floor]
      ]_vars

\* the door has just been closed at floor 1 on a cab call for floor 1 that came in while
\* it was open: lamp off and the completion are sent, the published state is Idle
C31_Witness ==
    /\ fsm_status[FsmNode] = "running"
    /\ fsm[FsmNode].state.behaviour = "Idle"
    /\ fsm[FsmNode].state.floor = 1
    /\ hw_door_light[FsmNode] = <<FALSE>>
    /\ fsm_order_complete[FsmNode] = << <<1, CAB>> >>
    /\ fsm_state[FsmNode] = <<fsm[FsmNode].state>>


(***************************************************************************)
(* C32: the FSM never sends door lamp off while the last obstruction value *)
(* it received is true: every tick in DoorOpen with obstruction asserted   *)
(* re-arms the door timer and leaves behaviour DoorOpen, so the door       *)
(* closes only on a tick after the obstruction has cleared and a full door *)
(* timer period (counted from the last re-arming) has elapsed.             *)
(***************************************************************************)
\* a step of the FSM of node n with no message waiting: a tick
C32_Tick(n) ==
    /\ fsm_status[n] = "running" /\ fsm_status'[n] = "running"
    /\ FsmIdleChannels(n)
    /\ fsm'[n] # fsm[n]
    /\ fsm'[n].door_timer # "expired"

\* C32: lamp off is sent only from DoorOpen with obstruction false and the door timer
\* elapsed; a tick in DoorOpen under obstruction re-arms the timer and sends nothing.
C32_ObstructionHoldsDoor ==
    [][ \A n \in Nodes :
          LET F == fsm[n]
              G == fsm'[n]
          IN  /\ FALSE \in { Sent(hw_door_light, hw_door_light', n)[i] :
                                i \in DOMAIN Sent(hw_door_light, hw_door_light', n) } =>
                    /\ ~F.obstruction
                    /\ F.state.behaviour = "DoorOpen"
                    /\ F.door_timer = "expired"
              /\ (C32_Tick(n) /\ F.state.behaviour = "DoorOpen" /\ F.obstruction) =>
                    /\ G = [F EXCEPT !.door_timer = "running"]
                    /\ hw_door_light'[n] = hw_door_light[n]
                    /\ hw_motor_direction'[n] = hw_motor_direction[n]
              /\ (fsm_status[n] = "running" /\ FsmIdleChannels(n)
                     /\ F.state.behaviour = "DoorOpen" /\ F.obstruction) =>
                    G.state = F.state /\ G.obstruction
      ]_vars

\* the door is open, the FSM has received obstruction = true and has no message
\* waiting, so its ticks run the obstruction branch: the door timer is armed, lamp on
C32_Witness ==
    /\ fsm_status[FsmNode] = "running"
    /\ fsm[FsmNode].state.behaviour = "DoorOpen"
    /\ fsm[FsmNode].obstruction
    /\ fsm[FsmNode].door_timer = "running"
    /\ hw[FsmNode].door_light
    /\ env.obstructions = MaxObstructions - 1
    /\ FsmIdleChannels(FsmNode)


(***************************************************************************)
(* C33: after the Coordinator handles PeerUpdate{new, lost}, the keys of   *)
(* states are (previous keys minus the lost ids other than the local id)   *)
(* plus the new id; a new id gets the default state; the entries of all    *)
(* other ids, and the local entry even when the local id is reported as    *)
(* new or lost, are unchanged; a reassign runs when any id was lost, and a *)
(* transmitting reassign runs when there is a new id.                      *)
(***************************************************************************)
\* the Coordinator of node n takes a peer update and stays in its loop
C33_Handled(n) ==
    /\ coord_status[n] = "running" /\ coord_status'[n] = "running"
    /\ Len(net_peer_update'[n]) < Len(net_peer_update[n])

\* keys, default state of a new peer, entries of the other peers, and the reassigns
C33_Effect(n) ==
    LET update == Head(net_peer_update[n])
        old == elevator_data[n]
        new == elevator_data'[n]
        added == IF update.new = "none" THEN {} ELSE {update.new}
        reassigns == (IF update.lost # {} THEN 1 ELSE 0) + (IF added # {} THEN 1 ELSE 0)
    IN  /\ DOMAIN new.states = (DOMAIN old.states \ (update.lost \ {n})) \cup added
        /\ \A id \in added \ {n} : new.states[id] = DefaultState
        /\ \A id \in DOMAIN new.states \ (added \cup {n}) : new.states[id] = old.states[id]
        /\ new.hall_requests = old.hall_requests
        /\ Len(Sent(fsm_hall_requests, fsm_hall_requests', n)) = reassigns
        /\ IF added # {}
           THEN /\ new.version = old.version + 1
                /\ Sent(net_data_send, net_data_send', n) = <<new>>
           ELSE /\ new.version = old.version
                /\ Sent(net_data_send, net_data_send', n) = <<>>

\* C33: the effect of the peer-update handler, the local entry being left as it was
\* even when the local id is reported as new or lost.
C33_PeerUpdateHandling ==
    [][ \A n \in Nodes :
          C33_Handled(n) =>
             /\ C33_Effect(n)
             /\ n \in DOMAIN elevator_data[n].states =>
                   /\ n \in DOMAIN elevator_data'[n].states
                   /\ elevator_data'[n].states[n] = elevator_data[n].states[n]
      ]_vars


(***************************************************************************)
(* C34: for a HALL_UP/HALL_DOWN edge (f,k) the Coordinator sets            *)
(* hall_requests[f][k] = true, sends the local FSM its new assignment,     *)
(* bumps version by exactly 1, hands exactly one snapshot containing the   *)
(* new flag to the network and sends lamp (f,k,true); for a CAB edge at f  *)
(* it sets states[self].cab_requests[f] = true, forwards f to the FSM and  *)
(* sends lamp (f,CAB,true), leaves hall_requests and version unchanged     *)
(* and sends no snapshot.                                                  *)
(***************************************************************************)
\* C34: the effect of the RequestReceived handler on a hall edge and on a cab edge.
C34_ButtonEdge ==
    [][ (coord_status[EvtNode] = "running"
            /\ Len(hw_request'[EvtNode]) < Len(hw_request[EvtNode])) =>
        LET request == Head(hw_request[EvtNode])
            f == request[1]
            k == request[2]
            old == elevator_data[EvtNode]
            new == elevator_data'[EvtNode]
        IN  /\ coord_status'[EvtNode] = "running"
            /\ hw_button_light'[EvtNode] = << <<f, k, TRUE>> >>
            /\ IF k = CAB
               THEN /\ new = [old EXCEPT !.states[EvtNode].cab_requests[f] = TRUE]
                    /\ Sent(fsm_cab_request, fsm_cab_request', EvtNode) = <<f>>
                    /\ fsm_hall_requests'[EvtNode] = fsm_hall_requests[EvtNode]
                    /\ net_data_send'[EvtNode] = net_data_send[EvtNode]
               ELSE /\ new = [old EXCEPT !.hall_requests[f][k] = TRUE,
                                         !.version = old.version + 1]
                    /\ Len(Sent(fsm_hall_requests, fsm_hall_requests', EvtNode)) = 1
                    /\ Sent(net_data_send, net_data_send', EvtNode) = <<new>>
                    /\ fsm_cab_request'[EvtNode] = fsm_cab_request[EvtNode]
      ]_vars

\* the Coordinator has handled a cab edge at floor 1 that was not stored before
C34_Witness ==
    /\ hw_button_light[EvtNode] = << <<1, CAB, TRUE>> >>
    /\ fsm_cab_request[EvtNode] = <<1>>
    /\ ~call.local.states[EvtNode].cab_requests[1]
    /\ elevator_data[EvtNode].states[EvtNode].cab_requests[1]
    /\ elevator_data[EvtNode].version = call.local.version


(***************************************************************************)
(* C35: on a state published by the FSM the Coordinator sends lamp         *)
(* (f,CAB,true) for exactly the floors f where the published cab flag is   *)
(* true and its own states[self].cab_requests[f] was false, sends no other *)
(* lamp command (never a lamp off), replaces states[self] with the         *)
(* published state, and then runs a transmitting reassign (assignment to   *)
(* the FSM, version + 1, one snapshot to the network).                     *)
(***************************************************************************)
\* C35: the effect of the NewElevatorState handler.
C35_StatePublished ==
    [][ (coord_status[EvtNode] = "running"
            /\ Len(fsm_state'[EvtNode]) < Len(fsm_state[EvtNode])) =>
        LET elevator_state == Head(fsm_state[EvtNode])
            old == elevator_data[EvtNode]
            new == elevator_data'[EvtNode]
            lamps == hw_button_light'[EvtNode]
            raised == { f \in Floors : /\ elevator_state.cab_requests[f]
                                       /\ ~old.states[EvtNode].cab_requests[f] }
        IN  /\ coord_status'[EvtNode] = "running"
            /\ \A i \in DOMAIN lamps :
                  lamps[i][2] = CAB /\ lamps[i][3] /\ lamps[i][1] \in raised
            /\ \A f \in raised :
                  Cardinality({ i \in DOMAIN lamps : lamps[i][1] = f }) = 1
            /\ new = [old EXCEPT !.states[EvtNode] = elevator_state,
                                 !.version = old.version + 1]
            /\ Len(Sent(fsm_hall_requests, fsm_hall_requests', EvtNode)) = 1
            /\ Sent(net_data_send, net_data_send', EvtNode) = <<new>>
            /\ fsm_cab_request'[EvtNode] = fsm_cab_request[EvtNode]
      ]_vars

\* the Coordinator has handled a published state that raises the cab flag of floor 1
C35_Witness ==
    /\ fsm_state[EvtNode] = <<>>
    /\ hw_button_light[EvtNode] = << <<1, CAB, TRUE>> >>
    /\ ~call.local.states[EvtNode].cab_requests[1]
    /\ elevator_data[EvtNode].states[EvtNode] = EvtCab
    /\ net_data_send[EvtNode] = <<elevator_data[EvtNode]>>


(***************************************************************************)
(* C36: when the Coordinator handles an FSM completion (f,k) it clears     *)
(* states[self].cab_requests[f] if k is CAB, or hall_requests[f][k] if k   *)
(* is HALL_UP or HALL_DOWN, leaves every other request flag unchanged,     *)
(* sends lamp (f,k,false) and runs a transmitting reassign (assignment to  *)
(* the FSM, version + 1, one snapshot to the network).                     *)
(***************************************************************************)
\* C36: the effect of the OrderComplete handler.
C36_CompletionHandled ==
    [][ (coord_status[EvtNode] = "running"
            /\ Len(fsm_order_complete'[EvtNode]) < Len(fsm_order_complete[EvtNode])) =>
        LET completed_order == Head(fsm_order_complete[EvtNode])
            f == completed_order[1]
            k == completed_order[2]
            old == elevator_data[EvtNode]
            new == elevator_data'[EvtNode]
        IN  /\ coord_status'[EvtNode] = "running"
            /\ hw_button_light'[EvtNode] = << <<f, k, FALSE>> >>
            /\ new.version = old.version + 1
            /\ DOMAIN new.states = DOMAIN old.states
            /\ \A id \in DOMAIN old.states, g \in Floors :
                  new.states[id].cab_requests[g] =
                     (old.states[id].cab_requests[g]
                         /\ ~(id = EvtNode /\ g = f /\ k = CAB))
            /\ \A g \in Floors, j \in HallKinds :
                  new.hall_requests[g][j] = (old.hall_requests[g][j] /\ ~(g = f /\ j = k))
            /\ Len(Sent(fsm_hall_requests, fsm_hall_requests', EvtNode)) = 1
            /\ Sent(net_data_send, net_data_send', EvtNode) = <<new>>
            /\ fsm_cab_request'[EvtNode] = fsm_cab_request[EvtNode]
      ]_vars

\* the Coordinator has handled the completion of a pending hall call (1, HALL_UP) while
\* the call (N-1, HALL_DOWN) stays
C36_Witness ==
    /\ fsm_order_complete[EvtNode] = <<>>
    /\ hw_button_light[EvtNode] = << <<1, HALL_UP, FALSE>> >>
    /\ call.local.hall_requests[1][HALL_UP]
    /\ ~elevator_data[EvtNode].hall_requests[1][HALL_UP]
    /\ elevator_data[EvtNode].hall_requests[NFloors - 1][HALL_DOWN]
    /\ net_data_send[EvtNode] = <<elevator_data[EvtNode]>>


(***************************************************************************)
(* C37: a reassign with transmit=false sends the local FSM exactly one     *)
(* assignment, hands nothing to the network and leaves version unchanged;  *)
(* a reassign with transmit=true sends the FSM exactly one assignment,     *)
(* then increments version by 1 and hands the network exactly one snapshot *)
(* equal to the full local ElevatorData (Error entries included) carrying  *)
(* the incremented version.                                                *)
(***************************************************************************)
\* C37: what hall_request_assigner(transmit) has sent and changed when it returns.
C37_TransmitFlag ==
    call.pc = "done" =>
        /\ Len(fsm_hall_requests[EvtNode]) = 1
        /\ hw_button_light[EvtNode] = <<>> /\ fsm_cab_request[EvtNode] = <<>>
        /\ IF call.transmit
           THEN /\ elevator_data[EvtNode] =
                      [call.local EXCEPT !.version = call.local.version + 1]
                /\ net_data_send[EvtNode] = <<elevator_data[EvtNode]>>
           ELSE /\ elevator_data[EvtNode] = call.local
                /\ net_data_send[EvtNode] = <<>>

\* a transmitting reassign has returned on data that holds an Error entry
C37_Witness ==
    /\ call.pc = "done" /\ call.transmit
    /\ \E id \in DOMAIN call.local.states : call.local.states[id].behaviour = "Error"
    /\ net_data_send[EvtNode] # <<>>

(***************************************************************************)
(* C38: on every reassign, no state whose behaviour is Error is passed to  *)
(* the solver; when no non-Error state remains, the local FSM receives the *)
(* full hall_requests matrix; otherwise the matrix sent to the local FSM   *)
(* is the solver's entry for the local id, and is all-false when the local *)
(* id is absent from the solver's output (local cabin in Error while       *)
(* another cabin is healthy); the local ElevatorData.states itself is not  *)
(* changed by the filtering.                                               *)
(***************************************************************************)
\* the ids whose state is not Error
C38_Healthy(data) == { id \in DOMAIN data.states : data.states[id].behaviour # "Error" }

\* C38: the matrix the FSM receives, by the cabins that are not in Error.
C38_ErrorFiltering ==
    call.pc = "done" =>
        LET local == call.local
            sent == fsm_hall_requests[EvtNode][1]
        IN  /\ fsm_hall_requests[EvtNode] # <<>>
            /\ elevator_data[EvtNode].states = local.states
            /\ C38_Healthy(local) = {} => sent = local.hall_requests
            /\ (C38_Healthy(local) # {} /\ EvtNode \notin C38_Healthy(local)) =>
                  sent = NoHall
            /\ C38_Healthy(local) = {EvtNode} => sent = local.hall_requests
            /\ \A f \in Floors, k \in HallKinds : sent[f][k] => local.hall_requests[f][k]

\* the local cabin is in Error, E2 is healthy, a call is pending: the FSM gets no call
C38_Witness ==
    /\ call.pc = "done"
    /\ call.local.states[EvtNode].behaviour = "Error"
    /\ C38_Healthy(call.local) = {"E2"}
    /\ call.local.hall_requests[1][HALL_UP]
    /\ fsm_hall_requests[EvtNode] = <<NoHall>>


(***************************************************************************)
(* C39: the FSM sends peer-TX disable only on a tick in Moving with the    *)
(* motor timer expired, and at most once per motor-loss episode; while     *)
(* peer-TX is disabled the behaviour stays Moving and every tick re-sends  *)
(* the current motor command; the next floor-sensor edge sends peer-TX     *)
(* enable; hence disable and enable messages strictly alternate starting   *)
(* with disable, and peer-TX is never left disabled while the behaviour is *)
(* Idle or DoorOpen.                                                       *)
(***************************************************************************)
\* peer-TX is disabled at node n: the last message of the FSM on net_peer_tx_enable
C39_Disabled(n) == ~peer_tx_enabled[n]

C40_Drained(n) ==
    /\ fsm_state[n] = <<>> /\ fsm_order_complete[n] = <<>>
    /\ fsm_hall_requests[n] = <<>> /\ fsm_cab_request[n] = <<>>

\* C40: with the channels drained, states[self] of the Coordinator is the state the FSM
\* holds.
C40_ViewNotStale ==
    \A n \in Nodes :
        (coord_status[n] = "running" /\ fsm_status[n] = "running" /\ C40_Drained(n)) =>
            /\ n \in DOMAIN elevator_data[n].states
            /\ elevator_data[n].states[n] = fsm[n].state


====
